---- MODULE Spec2Model ----
(***************************************************************************)
(* Model of the snack dispenser controller (src/snack_dispenser.c): the    *)
(* poll loop of main(), the animation engine, the idle countdown, the      *)
(* dispense burst and the NORMAL/SERVICE mode switch.                      *)
(*                                                                         *)
(* One step of the model is one iteration of the `while (1)` loop of       *)
(* main(): the clock is read, both animation tracks are ticked, the door   *)
(* transitions are applied, and then exactly one of the branches that end  *)
(* the iteration runs (gate timeout, idle expiry, dispense burst, no key,  *)
(* gate confirm, BACK, digit, ENTER).  Each branch is one action.          *)
(*                                                                         *)
(* Time is in milliseconds.  The drivers (LCD, 7-segment indicator, DAC,   *)
(* image viewer) are represented by the list `out` of the cues and notice  *)
(* screens an iteration emits; the service-mode indicator blink is not     *)
(* modelled.  Money is in cents.                                           *)
(***************************************************************************)
EXTENDS Integers, Sequences, FiniteSets, TLC

(* ------------------------- program constants -------------------------- *)
IDLE_MS == 9000
SVC_GATE_TIMEOUT_MS == 8000
RETURN_GATE_TIMEOUT_MS == 8000
MAX_COUNT == 15
DOOR_N == 4
DISP_N == 4
DOOR_FRAME_MS == 800
DISP_FRAME_MS == DOOR_FRAME_MS
TOTAL_STEPS_PER_ITEM == 60
DISPENSE_CYCLE_US == 3000000
DISP_PHASE_DELAY_US == DISPENSE_CYCLE_US \div (TOTAL_STEPS_PER_ITEM * 4)
MOTOR_STEPS_PER_CYCLE == 18
SELBUF_CAP == 4
AMTBUF_CAP == 3
SVCBUF_CAP == 4
N == 4

KEY_BACK == "A"
KEY_ENTER == "B"
NO_KEY == "NONE"
Digits == <<"0", "1", "2", "3", "4", "5", "6", "7", "8", "9">>
DigitKeys == {Digits[i] : i \in 1..10}

NORMAL_PORTS == [led |-> 58, lcd |-> 59, sm |-> 57, kbd |-> 60]
ADMIN_PORTS == [led |-> 26, lcd |-> 27, sm |-> 25, kbd |-> 28]

set_port_mapping(admin) == IF admin # 0 THEN ADMIN_PORTS ELSE NORMAL_PORTS

(* The catalog of main(): position -> selection index, price, stock.       *)
Slots == 0..(N - 1)
ItemIndex == (0 :> 3) @@ (1 :> 8) @@ (2 :> 11) @@ (3 :> 22)
ItemPrice == (0 :> 150) @@ (1 :> 150) @@ (2 :> 150) @@ (3 :> 175)
InitStock == (0 :> 1) @@ (1 :> 2) @@ (2 :> 3) @@ (3 :> 4)

(* ------------------------------ bounds -------------------------------- *)
(* The clock stops advancing MaxSeconds after power-up.                    *)
MaxSeconds == 12
MaxNow == MaxSeconds * 1000
(* Elapsed milliseconds between two clock reads of the poll loop; 0 stands *)
(* for an interval too short to reach any deadline.                        *)
Deltas == {0, DOOR_FRAME_MS, IDLE_MS}
(* What the operator types: the digit strings entered in each field.  A    *)
(* digit is pressed only while the field stays a prefix of one of them     *)
(* (or is full, where the code drops the digit).                           *)
MenuWords == {<<"1", "2", "3", "4">>, <<"0", "3">>, <<"7">>}
SvcMenuWords == {<<"1", "2", "3", "4">>, <<"2">>, <<"3">>, <<"4">>, <<"8">>}
AmtWords == {<<"1">>, <<"2">>, <<"2", "0", "0">>}
IdxWords == {<<"3">>, <<"8">>, <<"7">>}
SvcAmtWords == {<<"2">>, <<"0">>, <<"2", "0">>}
RestockWords == {<<"2">>, <<"0">>, <<"2", "0">>}
SoundWords == {<<"2">>, <<"9", "0", "0", "0">>}
MotorWords == {<<"2">>, <<"2", "0">>}
DoorWords == {}
PayKeys == {"0", "5"}
GateKeys == {"0", KEY_BACK, KEY_ENTER}

(* ------------------------------ helpers ------------------------------- *)
DigitVal(c) == (CHOOSE i \in 1..10 : Digits[i] = c) - 1

RECURSIVE atoi(_)
atoi(buf) ==
    IF buf = <<>> THEN 0
    ELSE 10 * atoi(SubSeq(buf, 1, Len(buf) - 1)) + DigitVal(buf[Len(buf)])

IsPrefix(p, w) == Len(p) <= Len(w) /\ SubSeq(w, 1, Len(p)) = p

(* find_slot_by_index with the scan started at the second catalog entry    *)
find_slot_from_second(idx) ==
    IF \E i \in Slots : i > 0 /\ ItemIndex[i] = idx
    THEN CHOOSE i \in Slots : i > 0 /\ ItemIndex[i] = idx
    ELSE -1

find_slot_by_index(idx) ==
    IF \E i \in Slots : ItemIndex[i] = idx
    THEN CHOOSE i \in Slots :
            ItemIndex[i] = idx /\ \A j \in Slots : j < i => ItemIndex[j] # idx
    ELSE -1

(* ---------------------------- animation ------------------------------- *)
ZeroAnim ==
    [active |-> 0, nframes |-> 0, idx |-> 0, direction |-> 0,
     next_ms |-> 0, frame_ms |-> 0, oneshot_done |-> 0]

anim_start(a, nframes, direction, frame_ms, t) ==
    LET dir == IF direction >= 0 THEN 1 ELSE -1
    IN  [active |-> 1, nframes |-> nframes, direction |-> dir,
         frame_ms |-> frame_ms, oneshot_done |-> 0,
         idx |-> IF dir > 0 THEN 0 ELSE nframes - 1,
         next_ms |-> t]

(* anim_tick that catches up with the clock when it is called late       *)
anim_tick_catch_up(a, t) ==
    IF a.active = 0 \/ a.oneshot_done # 0 THEN a
    ELSE IF t < a.next_ms THEN a
    ELSE LET b == [a EXCEPT !.next_ms = t + a.frame_ms]
             n == 1 + (t - a.next_ms) \div a.frame_ms
         IN  IF a.direction > 0
             THEN IF a.idx = a.nframes - 1
                  THEN [b EXCEPT !.oneshot_done = 1, !.active = 0]
                  ELSE [b EXCEPT !.idx = IF a.idx + n > a.nframes - 1
                                         THEN a.nframes - 1 ELSE a.idx + n]
             ELSE IF a.idx = 0
                  THEN [b EXCEPT !.oneshot_done = 1, !.active = 0]
                  ELSE [b EXCEPT !.idx = IF a.idx - n < 0 THEN 0 ELSE a.idx - n]

anim_tick(a, t) ==
    IF a.active = 0 \/ a.oneshot_done # 0 THEN a
    ELSE IF t < a.next_ms THEN a
    ELSE LET b == [a EXCEPT !.next_ms = t + a.frame_ms]
         IN  IF a.direction > 0
             THEN IF a.idx = a.nframes - 1
                  THEN [b EXCEPT !.oneshot_done = 1, !.active = 0]
                  ELSE [b EXCEPT !.idx = a.idx + 1]
             ELSE IF a.idx = 0
                  THEN [b EXCEPT !.oneshot_done = 1, !.active = 0]
                  ELSE [b EXCEPT !.idx = a.idx - 1]

(* ------------------------------- state -------------------------------- *)
VARIABLES
    now,                  \* the monotonic clock, now_ms()
    st,                   \* the controller state of main()
    selbuf, amtbuf, svcbuf,
    chosen_slot, amount, total,
    pay_zero_count, index_timer_active, service_mode,
    svc_gate_deadline, return_gate_deadline,
    svc_disp_slot, restock_slot,
    gPorts,               \* gLedPort, gLcdPort, gSmPort, gKbdPort
    idle_deadline, last_shown,
    gDoorAnim, gDispAnim,
    stock,                \* items[i].stock
    phase,                \* static phase of run_one_dispense_cycle_with_anim
    spin_phase,           \* static phase of motor_spin_one_cycle
    last_phase,           \* the phase the last iteration wrote last, -1: none
    phase_break,          \* a write of the last iteration was out of turn
    writes,               \* motor phase writes of the last iteration
    cycles_run,           \* dispense cycles run in the last iteration
    out,                  \* cues and notice screens of the last iteration
    left_alone            \* TRUE once nobody presses a key any more

(* the variables of the program and of what its last iteration did        *)
pvars ==
    <<now, st, selbuf, amtbuf, svcbuf, chosen_slot, amount, total,
      pay_zero_count, index_timer_active, service_mode, svc_gate_deadline,
      return_gate_deadline, svc_disp_slot, restock_slot, gPorts,
      idle_deadline, last_shown, gDoorAnim, gDispAnim, stock, phase,
      spin_phase, last_phase, phase_break, writes, cycles_run, out>>

vars == <<pvars, left_alone>>

(* The current state as one record, so that the code of an iteration can   *)
(* be written as a composition of functions on it.  The record also        *)
(* carries what the iteration does besides changing the state: the key it  *)
(* dispatched (key), the branches it took (path), the cues and notice      *)
(* screens it emitted (out), the motor phase writes (writes) and the       *)
(* dispense cycles (cycles_run) it ran.                                    *)
Cur ==
    [now |-> now, st |-> st, selbuf |-> selbuf, amtbuf |-> amtbuf,
     svcbuf |-> svcbuf, chosen_slot |-> chosen_slot, amount |-> amount,
     total |-> total, pay_zero_count |-> pay_zero_count,
     index_timer_active |-> index_timer_active,
     service_mode |-> service_mode,
     svc_gate_deadline |-> svc_gate_deadline,
     return_gate_deadline |-> return_gate_deadline,
     svc_disp_slot |-> svc_disp_slot, restock_slot |-> restock_slot,
     gPorts |-> gPorts, idle_deadline |-> idle_deadline,
     last_shown |-> last_shown, gDoorAnim |-> gDoorAnim,
     gDispAnim |-> gDispAnim, stock |-> stock, phase |-> phase,
     spin_phase |-> spin_phase, last_phase |-> -1,
     phase_break |-> FALSE, writes |-> 0,
     cycles_run |-> 0, key |-> NO_KEY, path |-> <<>>, out |-> <<>>]

Commit(r) ==
    /\ now' = r.now
    /\ st' = r.st
    /\ selbuf' = r.selbuf
    /\ amtbuf' = r.amtbuf
    /\ svcbuf' = r.svcbuf
    /\ chosen_slot' = r.chosen_slot
    /\ amount' = r.amount
    /\ total' = r.total
    /\ pay_zero_count' = r.pay_zero_count
    /\ index_timer_active' = r.index_timer_active
    /\ service_mode' = r.service_mode
    /\ svc_gate_deadline' = r.svc_gate_deadline
    /\ return_gate_deadline' = r.return_gate_deadline
    /\ svc_disp_slot' = r.svc_disp_slot
    /\ restock_slot' = r.restock_slot
    /\ gPorts' = r.gPorts
    /\ idle_deadline' = r.idle_deadline
    /\ last_shown' = r.last_shown
    /\ gDoorAnim' = r.gDoorAnim
    /\ gDispAnim' = r.gDispAnim
    /\ stock' = r.stock
    /\ phase' = r.phase
    /\ spin_phase' = r.spin_phase
    /\ last_phase' = r.last_phase
    /\ phase_break' = r.phase_break
    /\ writes' = r.writes
    /\ cycles_run' = r.cycles_run
    /\ out' = r.out
    /\ left_alone' = left_alone

Init ==
    /\ now = 0
    /\ st = "ST_MENU"
    /\ selbuf = <<>>
    /\ amtbuf = <<>>
    /\ svcbuf = <<>>
    /\ chosen_slot = -1
    /\ amount = 0
    /\ total = 0
    /\ pay_zero_count = 0
    /\ index_timer_active = 0
    /\ service_mode = 0
    /\ svc_gate_deadline = 0
    /\ return_gate_deadline = 0
    /\ svc_disp_slot = -1
    /\ restock_slot = -1
    /\ gPorts = NORMAL_PORTS
    /\ idle_deadline = 0
    /\ last_shown = -1
    /\ gDoorAnim = ZeroAnim
    /\ gDispAnim = ZeroAnim
    /\ stock = InitStock
    /\ phase = 0
    /\ spin_phase = 0
    /\ last_phase = -1
    /\ phase_break = FALSE
    /\ writes = 0
    /\ cycles_run = 0
    /\ out = <<>>
    /\ left_alone = FALSE

Emit(s, e) == [s EXCEPT !.out = Append(@, e)]
Took(s, p) == [s EXCEPT !.path = Append(@, p)]
beep_error(s) == Emit(s, "beep_error")
beep_success(s) == Emit(s, "beep_success")
beep_payment_ok(s) == Emit(s, "beep_payment_ok")

(* ------------------------- the idle countdown ------------------------- *)
(* timer_start_or_reset that starts nothing                                *)
timer_start_skipped(s) == s

timer_start_or_reset(s) ==
    [s EXCEPT !.idle_deadline = s.now + IDLE_MS, !.last_shown = -1]

(* timer_seconds_left without the cap at 9                                *)
timer_seconds_uncapped(s, t) ==
    IF s.idle_deadline <= 0 THEN -1
    ELSE LET rem == s.idle_deadline - t
         IN  IF rem <= 0 THEN 0
             ELSE LET sec == (rem + 999) \div 1000
                  IN  IF sec < 0 THEN 0 ELSE sec

timer_seconds_left(s, t) ==
    IF s.idle_deadline <= 0 THEN -1
    ELSE LET rem == s.idle_deadline - t
         IN  IF rem <= 0 THEN 0
             ELSE LET sec == (rem + 999) \div 1000
                  IN  IF sec > 9 THEN 9 ELSE IF sec < 0 THEN 0 ELSE sec

timer_update_display(s, t) ==
    LET left == timer_seconds_left(s, t)
    IN  IF left < 0 THEN s
        ELSE IF left # s.last_shown THEN [s EXCEPT !.last_shown = left]
        ELSE s

(* timer_stop_and_blank that blanks the indicator and keeps the deadline   *)
timer_blank_only(s) == [s EXCEPT !.last_shown = -1]

timer_stop_and_blank(s) ==
    [s EXCEPT !.idle_deadline = 0, !.last_shown = -1]

(* --------------------------- dispense burst --------------------------- *)
(* The burst runs inside one iteration and reads the clock itself, so it   *)
(* carries its own clock value t: every usleep advances it by the time     *)
(* asked for.  b = [anim, phase, writes, cycles, t].                       *)
PhaseTime(t, i) == t + (i * DISP_PHASE_DELAY_US) \div 1000

(* motor_write_phase that energises every other phase                     *)
motor_write_phase_skipping(b) ==
    [b EXCEPT !.writes = @ + 1, !.phase = (b.phase + 2) % 4,
              !.last = b.phase,
              !.brk = @ \/ (b.last # -1 /\ b.phase # (b.last + 1) % 4)]

(* motor_write_phase(phase); phase = (phase + 1) & 3;                      *)
motor_write_phase(b) ==
    [b EXCEPT !.writes = @ + 1, !.phase = (b.phase + 1) % 4,
              !.last = b.phase,
              !.brk = @ \/ (b.last # -1 /\ b.phase # (b.last + 1) % 4)]

(* one pass of the outer loop: anim_tick, then four phase writes, each     *)
(* followed by anim_tick and usleep(DISP_PHASE_DELAY_US)                   *)
dispense_step(b) ==
    LET b0 == [b EXCEPT !.anim = anim_tick(@, b.t)]
        b1 == [motor_write_phase(b0) EXCEPT !.anim = anim_tick(@, PhaseTime(b.t, 0))]
        b2 == [motor_write_phase(b1) EXCEPT !.anim = anim_tick(@, PhaseTime(b.t, 1))]
        b3 == [motor_write_phase(b2) EXCEPT !.anim = anim_tick(@, PhaseTime(b.t, 2))]
        b4 == [motor_write_phase(b3) EXCEPT !.anim = anim_tick(@, PhaseTime(b.t, 3))]
    IN  [b4 EXCEPT !.t = PhaseTime(b.t, 4)]

(* F applied to the value of x: x is evaluated once, before F              *)
Then(x, F(_)) == CHOOSE r \in {F(v) : v \in {x}} : TRUE

(* n passes of the outer loop, one after the other (evaluated by halves    *)
(* to keep the evaluation shallow)                                         *)
RECURSIVE dispense_steps(_, _)
dispense_steps(b, n) ==
    IF n = 0 THEN b
    ELSE IF n = 1 THEN dispense_step(b)
    ELSE LET rest(m) == dispense_steps(m, n - (n \div 2))
         IN  Then(dispense_steps(b, n \div 2), rest)

run_one_dispense_cycle_with_anim(b) ==
    [dispense_steps(b, TOTAL_STEPS_PER_ITEM) EXCEPT !.cycles = @ + 1]

(* for (i = 0; i < n; i++) { cycle; if (i != n - 1) usleep(150000); }      *)
RECURSIVE dispense_units(_, _)
dispense_units(b, n) ==
    IF n <= 0 THEN b
    ELSE LET rest(c) == IF n = 1 THEN c
                        ELSE dispense_units([c EXCEPT !.t = @ + 150], n - 1)
         IN  Then(run_one_dispense_cycle_with_anim(b), rest)

(* while (!oneshot_done) { anim_tick; usleep(20000); }: the loop exits     *)
(* only if the track is armed or already complete.                         *)
AnimWillFinish(a) == a.oneshot_done # 0 \/ a.active # 0

(* The passes in which anim_tick is not yet due change nothing but the     *)
(* clock, and are taken together.                                          *)
RECURSIVE wait_anim(_)
wait_anim(b) ==
    IF b.anim.oneshot_done # 0 THEN b
    ELSE IF b.t < b.anim.next_ms
    THEN Then([b EXCEPT !.t = @ + 20 * ((b.anim.next_ms - b.t + 19) \div 20)],
              wait_anim)
    ELSE Then([b EXCEPT !.anim = anim_tick(@, b.t), !.t = @ + 20], wait_anim)

dispense_burst(s, anim, n) ==
    LET b0 == [anim |-> anim, phase |-> s.phase, writes |-> 0,
               cycles |-> 0, t |-> s.now, last |-> s.last_phase,
               brk |-> s.phase_break]
        done(b1) == [s EXCEPT !.gDispAnim = b1.anim, !.phase = b1.phase,
                              !.last_phase = b1.last, !.phase_break = b1.brk,
                              !.writes = b1.writes, !.cycles_run = b1.cycles,
                              !.now = b1.t]
    IN  Then(Then(Then(b0, LAMBDA b : dispense_units(b, n)), wait_anim), done)

(* one pass of the outer loop of motor_spin_one_cycle: four phase writes   *)
spin_step(b) ==
    motor_write_phase(motor_write_phase(motor_write_phase(motor_write_phase(b))))

RECURSIVE spin_steps(_, _)
spin_steps(b, n) ==
    IF n = 0 THEN b
    ELSE IF n = 1 THEN spin_step(b)
    ELSE LET rest(m) == spin_steps(m, n - (n \div 2))
         IN  Then(spin_steps(b, n \div 2), rest)

motor_spin_one_cycle(b) == spin_steps(b, MOTOR_STEPS_PER_CYCLE)

RECURSIVE spin_cycles(_, _)
spin_cycles(b, n) ==
    IF n <= 0 THEN b
    ELSE LET rest(c) == spin_cycles(c, n - 1)
         IN  Then(motor_spin_one_cycle(b), rest)

(* motor_spin_one_cycle, `cycles` times (clamped to 1..15)                 *)
run_motor_test_cycles(s, cycles) ==
    LET c == IF cycles < 1 THEN 1 ELSE IF cycles > 15 THEN 15 ELSE cycles
        b0 == [phase |-> s.spin_phase, writes |-> 0, last |-> s.last_phase,
               brk |-> s.phase_break]
        done(b1) == [s EXCEPT !.spin_phase = b1.phase, !.writes = b1.writes,
                              !.last_phase = b1.last, !.phase_break = b1.brk]
    IN  Then(Then(b0, LAMBDA b : spin_cycles(b, c)), done)

(* ------------------------ start of an iteration ----------------------- *)
(* long long t = now_ms(); anim_tick(&gDoorAnim); anim_tick(&gDispAnim);   *)
TickAnimations(s, t) ==
    [s EXCEPT !.now = t,
              !.gDoorAnim = anim_tick(@, t),
              !.gDispAnim = anim_tick(@, t)]

DoorOpeningDone(s) ==
    IF s.st = "ST_DOOR_OPENING" /\ s.gDoorAnim.oneshot_done # 0
    THEN Took([s EXCEPT !.st = "ST_SVC_MENU", !.selbuf = <<>>], "door_opening_done")
    ELSE s

DoorClosingDone(s) ==
    IF s.st = "ST_DOOR_CLOSING" /\ s.gDoorAnim.oneshot_done # 0
    THEN Took(timer_stop_and_blank(
                 [s EXCEPT !.service_mode = 0,
                           !.gPorts = set_port_mapping(0),
                           !.st = "ST_MENU",
                           !.selbuf = <<>>, !.amtbuf = <<>>,
                           !.chosen_slot = -1,
                           !.index_timer_active = 0]),
              "door_closing_done")
    ELSE s

Prelude(d) == DoorClosingDone(DoorOpeningDone(TickAnimations(Cur, now + d)))

(* ---------------------------- gate timeouts --------------------------- *)
SvcGateExpired(s) ==
    s.st = "ST_SVC_GATE" /\ s.svc_gate_deadline > 0 /\ s.now >= s.svc_gate_deadline

(* svc_gate_timeout completing the switch the way return_gate_timeout does *)
svc_gate_timeout_completes(s) ==
    Took([beep_error(s) EXCEPT !.svc_gate_deadline = 0,
                               !.gPorts = set_port_mapping(1),
                               !.service_mode = 1,
                               !.st = "ST_SVC_MENU"],
         "svc_gate_timeout")

svc_gate_timeout(s) ==
    Took([beep_error(s) EXCEPT !.svc_gate_deadline = 0,
                               !.gPorts = set_port_mapping(0),
                               !.service_mode = 0,
                               !.st = "ST_MENU"],
         "svc_gate_timeout")

ReturnGateExpired(s) ==
    s.st = "ST_RETURN_GATE" /\ s.return_gate_deadline > 0
                            /\ s.now >= s.return_gate_deadline

(* return_gate_timeout reverting to NORMAL the way svc_gate_timeout does   *)
return_gate_timeout_reverts(s) ==
    Took([beep_error(s) EXCEPT !.return_gate_deadline = 0,
                               !.service_mode = 0,
                               !.gPorts = set_port_mapping(0),
                               !.st = "ST_MENU"],
         "return_gate_timeout")

return_gate_timeout(s) ==
    Took([beep_error(s) EXCEPT !.return_gate_deadline = 0,
                               !.service_mode = 1,
                               !.gPorts = set_port_mapping(1),
                               !.st = "ST_SVC_MENU"],
         "return_gate_timeout")

(* --------------------------- 7-seg behavior --------------------------- *)
timer_active(s) ==
    s.st = "ST_AMOUNT" \/ s.st = "ST_PAY"
        \/ (s.st = "ST_MENU" /\ s.index_timer_active # 0)

IdleExpired(s) ==
    s.service_mode = 0 /\ timer_active(s) /\ timer_seconds_left(s, s.now) = 0

(* idle_expiry that forgets the amount buffer                              *)
idle_expiry_keeps_amtbuf(s) ==
    Took(timer_stop_and_blank(
             [beep_error(timer_update_display(s, s.now))
                 EXCEPT !.st = "ST_MENU",
                        !.selbuf = <<>>,
                        !.chosen_slot = -1,
                        !.index_timer_active = 0]),
         "idle_expiry")

idle_expiry(s) ==
    Took(timer_stop_and_blank(
             [beep_error(timer_update_display(s, s.now))
                 EXCEPT !.st = "ST_MENU",
                        !.selbuf = <<>>, !.amtbuf = <<>>,
                        !.chosen_slot = -1,
                        !.index_timer_active = 0]),
         "idle_expiry")

SevenSeg(s) ==
    IF s.service_mode # 0 THEN s
    ELSE IF timer_active(s) THEN timer_update_display(s, s.now)
    ELSE s

Preempted(s) == SvcGateExpired(s) \/ ReturnGateExpired(s) \/ IdleExpired(s)

(* --------------------------- ST_DISPENSING ---------------------------- *)
(* ST_DISPENSING without its anim_start                                    *)
DispenseArmed_never(s) == s.gDispAnim

DispenseArmed(s) ==
    IF s.gDispAnim.active = 0 /\ s.gDispAnim.oneshot_done = 0
    THEN anim_start(s.gDispAnim, DISP_N, 1, DISP_FRAME_MS, s.now)
    ELSE s.gDispAnim

(* the dispensing state without the stock update                           *)
StockUntouched(s) == s.stock

StockAfterDispense(s) ==
    LET left == s.stock[s.chosen_slot] - s.amount
    IN  [s.stock EXCEPT ![s.chosen_slot] = IF left < 0 THEN 0 ELSE left]

dispensing(s) ==
    LET b == dispense_burst(s, DispenseArmed(s), s.amount)
        c == beep_success(Emit(b, "lcd:Done!"))
    IN  Took(timer_stop_and_blank(
                 [c EXCEPT !.stock = StockAfterDispense(s),
                           !.st = "ST_MENU",
                           !.chosen_slot = -1,
                           !.amount = 0, !.total = 0,
                           !.pay_zero_count = 0,
                           !.selbuf = <<>>, !.amtbuf = <<>>,
                           !.index_timer_active = 0,
                           !.gDispAnim = [b.gDispAnim EXCEPT !.oneshot_done = 0]]),
             "dispensing")

(* ------------------------- key: gate confirms ------------------------- *)
Pressed(s, k, p) == Took([s EXCEPT !.key = k], p)

(* svc_gate_confirm that leaves the gate countdown armed                   *)
svc_gate_confirm_keeps_deadline(s, k) ==
    [Pressed(s, k, "svc_gate_confirm")
        EXCEPT !.service_mode = 1,
               !.st = "ST_DOOR_OPENING",
               !.gDoorAnim = anim_start([s.gDoorAnim EXCEPT !.oneshot_done = 0],
                                        DOOR_N, 1, DOOR_FRAME_MS, s.now)]

svc_gate_confirm(s, k) ==
    [Pressed(s, k, "svc_gate_confirm")
        EXCEPT !.svc_gate_deadline = 0,
               !.service_mode = 1,
               !.st = "ST_DOOR_OPENING",
               !.gDoorAnim = anim_start([s.gDoorAnim EXCEPT !.oneshot_done = 0],
                                        DOOR_N, 1, DOOR_FRAME_MS, s.now)]

return_gate_confirm(s, k) ==
    [Pressed(s, k, "return_gate_confirm")
        EXCEPT !.return_gate_deadline = 0,
               !.st = "ST_DOOR_CLOSING",
               !.gDoorAnim = anim_start([s.gDoorAnim EXCEPT !.oneshot_done = 0],
                                        DOOR_N, -1, DOOR_FRAME_MS, s.now)]

(* ------------------------------ key: BACK ----------------------------- *)
(* back that deletes one digit of the service field before it cancels     *)
back_deleting(s0) ==
    LET s == Pressed(s0, KEY_BACK, "back")
    IN  IF s.service_mode = 0
        THEN IF s.st = "ST_MENU"
             THEN LET a == IF Len(s.selbuf) > 0
                           THEN [s EXCEPT !.selbuf = SubSeq(@, 1, Len(@) - 1)]
                           ELSE s
                  IN  IF Len(a.selbuf) = 0
                      THEN timer_stop_and_blank([a EXCEPT !.index_timer_active = 0])
                      ELSE a
             ELSE [timer_stop_and_blank(s)
                      EXCEPT !.st = "ST_MENU",
                             !.chosen_slot = -1,
                             !.amtbuf = <<>>,
                             !.index_timer_active = 0]
        ELSE IF Len(s.svcbuf) > 0
        THEN [s EXCEPT !.svcbuf = SubSeq(@, 1, Len(@) - 1)]
        ELSE [s EXCEPT !.st = "ST_SVC_MENU",
                       !.selbuf = <<>>, !.svcbuf = <<>>,
                       !.svc_disp_slot = -1,
                       !.restock_slot = -1]

back(s0) ==
    LET s == Pressed(s0, KEY_BACK, "back")
    IN  IF s.service_mode = 0
        THEN IF s.st = "ST_MENU"
             THEN LET a == IF Len(s.selbuf) > 0
                           THEN [s EXCEPT !.selbuf = SubSeq(@, 1, Len(@) - 1)]
                           ELSE s
                  IN  IF Len(a.selbuf) = 0
                      THEN timer_stop_and_blank([a EXCEPT !.index_timer_active = 0])
                      ELSE a
             ELSE [timer_stop_and_blank(s)
                      EXCEPT !.st = "ST_MENU",
                             !.chosen_slot = -1,
                             !.amtbuf = <<>>,
                             !.index_timer_active = 0]
        ELSE [s EXCEPT !.st = "ST_SVC_MENU",
                       !.selbuf = <<>>, !.svcbuf = <<>>,
                       !.svc_disp_slot = -1,
                       !.restock_slot = -1]

(* ----------------------------- key: digits ---------------------------- *)
(* PushDigit that appends whatever the length                              *)
PushDigit_unbounded(buf, cap, k) == Append(buf, k)

PushDigit(buf, cap, k) == IF Len(buf) < cap THEN Append(buf, k) ELSE buf

pay_digit(s, k) ==
    LET a == [s EXCEPT !.pay_zero_count = IF k = "0" THEN @ + 1 ELSE 0]
    IN  IF a.pay_zero_count >= 2
        THEN [beep_payment_ok(a)
                 EXCEPT !.gDispAnim = [@ EXCEPT !.oneshot_done = 0, !.active = 0],
                        !.st = "ST_DISPENSING"]
        ELSE a

digit(s0, k) ==
    LET s == Pressed(s0, k, "digit")
    IN  IF s.service_mode = 0
        THEN IF s.st = "ST_MENU"
             THEN LET a == [s EXCEPT !.selbuf = PushDigit(@, SELBUF_CAP, k)]
                  IN  IF a.index_timer_active = 0 /\ Len(a.selbuf) > 0
                      THEN timer_update_display(
                               timer_start_or_reset(
                                   [a EXCEPT !.index_timer_active = 1]), a.now)
                      ELSE a
             ELSE IF s.st = "ST_AMOUNT"
             THEN [s EXCEPT !.amtbuf = PushDigit(@, AMTBUF_CAP, k)]
             ELSE IF s.st = "ST_PAY"
             THEN pay_digit(s, k)
             ELSE s
        ELSE IF s.st = "ST_SVC_MENU"
             THEN [s EXCEPT !.selbuf = PushDigit(@, SELBUF_CAP, k)]
             ELSE [s EXCEPT !.svcbuf = PushDigit(@, SVCBUF_CAP, k)]

(* ------------------------- key: ENTER, normal ------------------------- *)
(* the reserved code read backwards                                        *)
SERVICE_CODE_reversed == <<"4", "3", "2", "1">>

SERVICE_CODE == <<"1", "2", "3", "4">>

(* enter_menu without the stock check                                      *)
enter_menu_any_stock(s0) ==
    LET s == Pressed(s0, KEY_ENTER, "enter_menu")
    IN  IF Len(s.selbuf) = 0
        THEN Emit(beep_error(s), "lcd:No index")
        ELSE IF s.selbuf = SERVICE_CODE
        THEN [timer_stop_and_blank(s)
                 EXCEPT !.selbuf = <<>>,
                        !.index_timer_active = 0,
                        !.gPorts = set_port_mapping(1),
                        !.st = "ST_SVC_GATE",
                        !.svc_gate_deadline = s.now + SVC_GATE_TIMEOUT_MS]
        ELSE LET slot == find_slot_by_index(atoi(s.selbuf))
                 a == timer_stop_and_blank(
                          [s EXCEPT !.chosen_slot = slot,
                                    !.selbuf = <<>>,
                                    !.index_timer_active = 0])
             IN  IF slot < 0
                 THEN Emit(beep_error(a), "lcd:Invalid index")
                 ELSE timer_update_display(
                          timer_start_or_reset(
                              [a EXCEPT !.st = "ST_AMOUNT", !.amtbuf = <<>>]),
                          a.now)

enter_menu(s0) ==
    LET s == Pressed(s0, KEY_ENTER, "enter_menu")
    IN  IF Len(s.selbuf) = 0
        THEN Emit(beep_error(s), "lcd:No index")
        ELSE IF s.selbuf = SERVICE_CODE
        THEN [timer_stop_and_blank(s)
                 EXCEPT !.selbuf = <<>>,
                        !.index_timer_active = 0,
                        !.gPorts = set_port_mapping(1),
                        !.st = "ST_SVC_GATE",
                        !.svc_gate_deadline = s.now + SVC_GATE_TIMEOUT_MS]
        ELSE LET slot == find_slot_by_index(atoi(s.selbuf))
                 a == timer_stop_and_blank(
                          [s EXCEPT !.chosen_slot = slot,
                                    !.selbuf = <<>>,
                                    !.index_timer_active = 0])
             IN  IF slot < 0
                 THEN Emit(beep_error(a), "lcd:Invalid index")
                 ELSE IF a.stock[slot] <= 0
                 THEN [Emit(a, "lcd:OUT OF STOCK") EXCEPT !.chosen_slot = -1]
                 ELSE timer_update_display(
                          timer_start_or_reset(
                              [a EXCEPT !.st = "ST_AMOUNT", !.amtbuf = <<>>]),
                          a.now)

(* enter_amount without the stock check                                    *)
enter_amount_any_stock(s0) ==
    LET s == Pressed(s0, KEY_ENTER, "enter_amount")
    IN  IF Len(s.amtbuf) = 0
        THEN Emit(beep_error(s), "lcd:No amount")
        ELSE LET a == [s EXCEPT !.amount = atoi(s.amtbuf)]
             IN  IF a.amount < 1 \/ a.amount > MAX_COUNT
                 THEN [Emit(beep_error(a), "lcd:Amount must be 1-15")
                          EXCEPT !.amtbuf = <<>>]
                 ELSE timer_update_display(
                          timer_start_or_reset(
                              [a EXCEPT !.total = ItemPrice[a.chosen_slot] * a.amount,
                                        !.st = "ST_PAY",
                                        !.pay_zero_count = 0]),
                          a.now)

enter_amount(s0) ==
    LET s == Pressed(s0, KEY_ENTER, "enter_amount")
    IN  IF Len(s.amtbuf) = 0
        THEN Emit(beep_error(s), "lcd:No amount")
        ELSE LET a == [s EXCEPT !.amount = atoi(s.amtbuf)]
             IN  IF a.amount < 1 \/ a.amount > MAX_COUNT
                 THEN [Emit(beep_error(a), "lcd:Amount must be 1-15")
                          EXCEPT !.amtbuf = <<>>]
                 ELSE IF a.amount > a.stock[a.chosen_slot]
                 THEN [Emit(beep_error(a), "lcd:Insufficient stock")
                          EXCEPT !.amtbuf = <<>>]
                 ELSE timer_update_display(
                          timer_start_or_reset(
                              [a EXCEPT !.total = ItemPrice[a.chosen_slot] * a.amount,
                                        !.st = "ST_PAY",
                                        !.pay_zero_count = 0]),
                          a.now)

(* ------------------------- key: ENTER, service ------------------------ *)
(* enter_svc_menu leaving the port mapping alone on the reserved code      *)
enter_svc_menu_keeps_ports(s0) ==
    LET s == Pressed(s0, KEY_ENTER, "enter_svc_menu")
    IN  IF s.selbuf = SERVICE_CODE
        THEN [s EXCEPT !.selbuf = <<>>,
                       !.st = "ST_RETURN_GATE",
                       !.return_gate_deadline = s.now + RETURN_GATE_TIMEOUT_MS]
        ELSE LET a == IF s.selbuf = <<"1">>
                      THEN [s EXCEPT !.svcbuf = <<>>, !.st = "ST_SVC_DISPENSE_IDX"]
                      ELSE IF s.selbuf = <<"2">>
                      THEN [s EXCEPT !.svcbuf = <<>>, !.st = "ST_SVC_RESTOCK_IDX"]
                      ELSE IF s.selbuf = <<"3">>
                      THEN [s EXCEPT !.svcbuf = <<>>, !.st = "ST_SVC_SOUND_SEL"]
                      ELSE IF s.selbuf = <<"4">>
                      THEN [s EXCEPT !.svcbuf = <<>>, !.st = "ST_SVC_MOTOR_CYC"]
                      ELSE Emit(beep_error(s), "lcd:Invalid choice")
             IN  [a EXCEPT !.selbuf = <<>>]

enter_svc_menu(s0) ==
    LET s == Pressed(s0, KEY_ENTER, "enter_svc_menu")
    IN  IF s.selbuf = SERVICE_CODE
        THEN [s EXCEPT !.selbuf = <<>>,
                       !.gPorts = set_port_mapping(0),
                       !.st = "ST_RETURN_GATE",
                       !.return_gate_deadline = s.now + RETURN_GATE_TIMEOUT_MS]
        ELSE LET a == IF s.selbuf = <<"1">>
                      THEN [s EXCEPT !.svcbuf = <<>>, !.st = "ST_SVC_DISPENSE_IDX"]
                      ELSE IF s.selbuf = <<"2">>
                      THEN [s EXCEPT !.svcbuf = <<>>, !.st = "ST_SVC_RESTOCK_IDX"]
                      ELSE IF s.selbuf = <<"3">>
                      THEN [s EXCEPT !.svcbuf = <<>>, !.st = "ST_SVC_SOUND_SEL"]
                      ELSE IF s.selbuf = <<"4">>
                      THEN [s EXCEPT !.svcbuf = <<>>, !.st = "ST_SVC_MOTOR_CYC"]
                      ELSE Emit(beep_error(s), "lcd:Invalid choice")
             IN  [a EXCEPT !.selbuf = <<>>]

enter_svc_dispense_idx(s0) ==
    LET s == Pressed(s0, KEY_ENTER, "enter_svc_dispense_idx")
    IN  IF Len(s.svcbuf) = 0
        THEN Emit(beep_error(s), "lcd:No index")
        ELSE LET a == [s EXCEPT !.svc_disp_slot = find_slot_by_index(atoi(s.svcbuf))]
             IN  IF a.svc_disp_slot < 0
                 THEN [Emit(beep_error(a), "lcd:Bad idx") EXCEPT !.svcbuf = <<>>]
                 ELSE [a EXCEPT !.svcbuf = <<>>, !.st = "ST_SVC_DISPENSE_AMT"]

(* oneshot_done = 0; active = 0; anim_start(&gDispAnim, ...)               *)
SvcDispenseArmed(s) ==
    anim_start([s.gDispAnim EXCEPT !.oneshot_done = 0, !.active = 0],
               DISP_N, 1, DISP_FRAME_MS, s.now)

enter_svc_dispense_amt(s0) ==
    LET s == Pressed(s0, KEY_ENTER, "enter_svc_dispense_amt")
        a == atoi(s.svcbuf)
    IN  IF Len(s.svcbuf) = 0
        THEN Emit(beep_error(s), "lcd:No amount")
        ELSE IF a < 1 \/ a > 15
        THEN [Emit(beep_error(s), "lcd:Amount 1-15") EXCEPT !.svcbuf = <<>>]
        ELSE LET armed == SvcDispenseArmed(s)
                 b == dispense_burst(s, armed, a)
             IN  [Emit(beep_success(b), "lcd:Service Done")
                     EXCEPT !.st = "ST_SVC_MENU",
                            !.svcbuf = <<>>,
                            !.svc_disp_slot = -1]

enter_svc_restock_idx(s0) ==
    LET s == Pressed(s0, KEY_ENTER, "enter_svc_restock_idx")
    IN  IF Len(s.svcbuf) = 0
        THEN Emit(beep_error(s), "lcd:No index")
        ELSE LET a == [s EXCEPT !.restock_slot = find_slot_by_index(atoi(s.svcbuf))]
             IN  IF a.restock_slot < 0
                 THEN [Emit(beep_error(a), "lcd:Bad idx") EXCEPT !.svcbuf = <<>>]
                 ELSE [a EXCEPT !.svcbuf = <<>>, !.st = "ST_SVC_RESTOCK_QTY"]

(* enter_svc_restock_qty without the range check                          *)
enter_svc_restock_qty_any(s0) ==
    LET s == Pressed(s0, KEY_ENTER, "enter_svc_restock_qty")
        newstock == atoi(s.svcbuf)
    IN  IF Len(s.svcbuf) = 0
        THEN Emit(beep_error(s), "lcd:No stock")
        ELSE [Emit(beep_success(s), "lcd:Restocked")
                 EXCEPT !.stock = [s.stock EXCEPT ![s.restock_slot] = newstock],
                        !.st = "ST_SVC_MENU",
                        !.restock_slot = -1,
                        !.svcbuf = <<>>]

enter_svc_restock_qty(s0) ==
    LET s == Pressed(s0, KEY_ENTER, "enter_svc_restock_qty")
        newstock == atoi(s.svcbuf)
    IN  IF Len(s.svcbuf) = 0
        THEN Emit(beep_error(s), "lcd:No stock")
        ELSE IF newstock < 1 \/ newstock > 15
        THEN [Emit(beep_error(s), "lcd:Stock must be 1-15") EXCEPT !.svcbuf = <<>>]
        ELSE [Emit(beep_success(s), "lcd:Restocked")
                 EXCEPT !.stock = [s.stock EXCEPT ![s.restock_slot] = newstock],
                        !.st = "ST_SVC_MENU",
                        !.restock_slot = -1,
                        !.svcbuf = <<>>]

(* the cue played by the sound test for selection n                        *)
SoundCue(n) ==
    IF n = 1 THEN "beep_keypress"
    ELSE IF n = 2 THEN "beep_error"
    ELSE IF n = 3 THEN "beep_success"
    ELSE IF n = 4 THEN "beep_payment_ok"
    ELSE "beep_dispensing_slot"

enter_svc_sound_sel(s0) ==
    LET s == Pressed(s0, KEY_ENTER, "enter_svc_sound_sel")
        n == atoi(s.svcbuf)
    IN  IF Len(s.svcbuf) = 0
        THEN Emit(beep_error(s), "lcd:Pick 1-8")
        ELSE IF n < 1 \/ n > 8
        THEN [Emit(beep_error(s), "lcd:Sound must be 1-8") EXCEPT !.svcbuf = <<>>]
        ELSE [Emit(Emit(s, "lcd:Playing..."), SoundCue(n)) EXCEPT !.svcbuf = <<>>]

(* enter_svc_motor_cyc that keeps the rejected digits in the field        *)
enter_svc_motor_cyc_keeps_field(s0) ==
    LET s == Pressed(s0, KEY_ENTER, "enter_svc_motor_cyc")
        cycles == atoi(s.svcbuf)
    IN  IF Len(s.svcbuf) = 0
        THEN Emit(beep_error(s), "lcd:No cycles")
        ELSE IF cycles < 1 \/ cycles > 15
        THEN Emit(beep_error(s), "lcd:Cycles must be 1-15")
        ELSE [beep_success(run_motor_test_cycles(Emit(s, "lcd:Motor test"), cycles))
                 EXCEPT !.svcbuf = <<>>]

enter_svc_motor_cyc(s0) ==
    LET s == Pressed(s0, KEY_ENTER, "enter_svc_motor_cyc")
        cycles == atoi(s.svcbuf)
    IN  IF Len(s.svcbuf) = 0
        THEN Emit(beep_error(s), "lcd:No cycles")
        ELSE IF cycles < 1 \/ cycles > 15
        THEN [Emit(beep_error(s), "lcd:Cycles must be 1-15") EXCEPT !.svcbuf = <<>>]
        ELSE [beep_success(run_motor_test_cycles(Emit(s, "lcd:Motor test"), cycles))
                 EXCEPT !.svcbuf = <<>>]

(* ENTER in a state with no handler falls through to "anything else"       *)
EnterHandled(s) ==
    IF s.service_mode = 0
    THEN s.st \in {"ST_MENU", "ST_AMOUNT"}
    ELSE s.st \in {"ST_SVC_MENU", "ST_SVC_DISPENSE_IDX", "ST_SVC_DISPENSE_AMT",
                   "ST_SVC_RESTOCK_IDX", "ST_SVC_RESTOCK_QTY",
                   "ST_SVC_SOUND_SEL", "ST_SVC_MOTOR_CYC"}

enter_unhandled(s) == beep_error(Pressed(s, KEY_ENTER, "anything_else"))

(* --------------------------- the environment -------------------------- *)
FieldWords(s) ==
    IF s.st = "ST_MENU" THEN MenuWords
    ELSE IF s.st = "ST_SVC_MENU" THEN SvcMenuWords
    ELSE IF s.st = "ST_AMOUNT" THEN AmtWords
    ELSE IF s.st \in {"ST_SVC_DISPENSE_IDX", "ST_SVC_RESTOCK_IDX"} THEN IdxWords
    ELSE IF s.st = "ST_SVC_DISPENSE_AMT" THEN SvcAmtWords
    ELSE IF s.st = "ST_SVC_RESTOCK_QTY" THEN RestockWords
    ELSE IF s.st = "ST_SVC_SOUND_SEL" THEN SoundWords
    ELSE IF s.st = "ST_SVC_MOTOR_CYC" THEN MotorWords
    ELSE DoorWords

(* the buffer a digit pressed in state s is appended to, and its capacity  *)
ActiveBuf(s) ==
    IF s.service_mode = 0
    THEN IF s.st = "ST_AMOUNT" THEN s.amtbuf ELSE s.selbuf
    ELSE IF s.st = "ST_SVC_MENU" THEN s.selbuf ELSE s.svcbuf

ActiveCap(s) ==
    IF s.service_mode = 0
    THEN IF s.st = "ST_AMOUNT" THEN AMTBUF_CAP ELSE SELBUF_CAP
    ELSE IF s.st = "ST_SVC_MENU" THEN SELBUF_CAP ELSE SVCBUF_CAP

(* Over a door that is still moving behind a service screen (BACK was    *)
(* pressed while it opened or closed) the operator presses BACK or         *)
(* nothing; the service screens are worked once the door is at rest.       *)
DoorBehind(s) ==
    s.gDoorAnim.active # 0 /\ s.st \notin {"ST_DOOR_OPENING", "ST_DOOR_CLOSING"}

MayType(s, k) ==
    IF DoorBehind(s) THEN FALSE
    ELSE IF s.service_mode = 0 /\ s.st \notin {"ST_MENU", "ST_AMOUNT"}
    THEN k \in PayKeys
    ELSE IF Len(ActiveBuf(s)) >= ActiveCap(s)
    THEN k \in PayKeys
    ELSE \E w \in FieldWords(s) : IsPrefix(Append(ActiveBuf(s), k), w)

(* ------------------------------ actions ------------------------------- *)
(* Every action is one whole iteration of the poll loop: the clock read d  *)
(* milliseconds after the previous one, the animation ticks and door       *)
(* transitions, then the branch that ends the iteration.                   *)
(* Time is counted only while something waits for the clock: a frame      *)
(* interval while an animation runs, a whole countdown while a countdown,  *)
(* a gate or an animation is pending.  The time spent with nothing pending *)
(* is not observable by the program.                                       *)
AnimRunning == gDoorAnim.active # 0 \/ gDispAnim.active # 0

ClockWatched ==
    \/ idle_deadline > 0
    \/ svc_gate_deadline > 0
    \/ return_gate_deadline > 0
    \/ AnimRunning

Elapsed(d) ==
    /\ d \in Deltas
    /\ now + d <= MaxNow
    /\ \/ d = 0
       \/ d = DOOR_FRAME_MS /\ AnimRunning
       \/ d > DOOR_FRAME_MS /\ ClockWatched

(* a key scan that is reached whatever has expired                        *)
AtScan_whatever_expired(s) == s.st # "ST_DISPENSING"

(* the state in which the key scan is reached                              *)
AtScan(s) == ~Preempted(s) /\ s.st # "ST_DISPENSING"
AtDispatch(s) == AtScan(s) /\ s.st \notin {"ST_SVC_GATE", "ST_RETURN_GATE"}
AtEnter(s, state, mode) ==
    AtDispatch(s) /\ ~DoorBehind(s) /\ s.st = state /\ s.service_mode = mode

SvcGateTimeout ==
    \E d \in Deltas : Elapsed(d) /\
        LET s == Prelude(d)
        IN  SvcGateExpired(s) /\ Commit(svc_gate_timeout(s))

ReturnGateTimeout ==
    \E d \in Deltas : Elapsed(d) /\
        LET s == Prelude(d)
        IN  ~SvcGateExpired(s) /\ ReturnGateExpired(s)
                /\ Commit(return_gate_timeout(s))

IdleExpiry ==
    \E d \in Deltas : Elapsed(d) /\
        LET s == Prelude(d)
        IN  ~SvcGateExpired(s) /\ ~ReturnGateExpired(s) /\ IdleExpired(s)
                /\ Commit(idle_expiry(s))

Dispensing ==
    \E d \in Deltas : Elapsed(d) /\
        LET s == SevenSeg(Prelude(d))
        IN  /\ ~Preempted(s)
            /\ s.st = "ST_DISPENSING"
            /\ AnimWillFinish(DispenseArmed(s))
            /\ \E r \in {dispensing(s)} : r.now <= MaxNow /\ Commit(r)

NoKey ==
    \E d \in Deltas : Elapsed(d) /\
        LET s == SevenSeg(Prelude(d))
        IN  AtScan(s) /\ Commit(s)

SvcGateConfirm ==
    \E d \in Deltas : Elapsed(d) /\ \E k \in GateKeys :
        LET s == SevenSeg(Prelude(d))
        IN  AtScan(s) /\ s.st = "ST_SVC_GATE" /\ Commit(svc_gate_confirm(s, k))

ReturnGateConfirm ==
    \E d \in Deltas : Elapsed(d) /\ \E k \in GateKeys :
        LET s == SevenSeg(Prelude(d))
        IN  AtScan(s) /\ s.st = "ST_RETURN_GATE" /\ Commit(return_gate_confirm(s, k))

Back ==
    \E d \in Deltas : Elapsed(d) /\
        LET s == SevenSeg(Prelude(d))
        IN  AtDispatch(s) /\ Commit(back(s))

Digit ==
    \E d \in Deltas : Elapsed(d) /\ \E k \in DigitKeys :
        LET s == SevenSeg(Prelude(d))
        IN  AtDispatch(s) /\ MayType(s, k) /\ Commit(digit(s, k))

EnterMenu ==
    \E d \in Deltas : Elapsed(d) /\
        LET s == SevenSeg(Prelude(d))
        IN  AtEnter(s, "ST_MENU", 0) /\ Commit(enter_menu(s))

EnterAmount ==
    \E d \in Deltas : Elapsed(d) /\
        LET s == SevenSeg(Prelude(d))
        IN  AtEnter(s, "ST_AMOUNT", 0) /\ Commit(enter_amount(s))

EnterSvcMenu ==
    \E d \in Deltas : Elapsed(d) /\
        LET s == SevenSeg(Prelude(d))
        IN  AtEnter(s, "ST_SVC_MENU", 1) /\ Commit(enter_svc_menu(s))

EnterSvcDispenseIdx ==
    \E d \in Deltas : Elapsed(d) /\
        LET s == SevenSeg(Prelude(d))
        IN  AtEnter(s, "ST_SVC_DISPENSE_IDX", 1) /\ Commit(enter_svc_dispense_idx(s))

EnterSvcDispenseAmt ==
    \E d \in Deltas : Elapsed(d) /\
        LET s == SevenSeg(Prelude(d))
        IN  /\ AtEnter(s, "ST_SVC_DISPENSE_AMT", 1)
            /\ enter_svc_dispense_amt(s).now <= MaxNow
            /\ Commit(enter_svc_dispense_amt(s))

EnterSvcRestockIdx ==
    \E d \in Deltas : Elapsed(d) /\
        LET s == SevenSeg(Prelude(d))
        IN  AtEnter(s, "ST_SVC_RESTOCK_IDX", 1) /\ Commit(enter_svc_restock_idx(s))

EnterSvcRestockQty ==
    \E d \in Deltas : Elapsed(d) /\
        LET s == SevenSeg(Prelude(d))
        IN  AtEnter(s, "ST_SVC_RESTOCK_QTY", 1) /\ Commit(enter_svc_restock_qty(s))

EnterSvcSoundSel ==
    \E d \in Deltas : Elapsed(d) /\
        LET s == SevenSeg(Prelude(d))
        IN  AtEnter(s, "ST_SVC_SOUND_SEL", 1) /\ Commit(enter_svc_sound_sel(s))

EnterSvcMotorCyc ==
    \E d \in Deltas : Elapsed(d) /\
        LET s == SevenSeg(Prelude(d))
        IN  AtEnter(s, "ST_SVC_MOTOR_CYC", 1) /\ Commit(enter_svc_motor_cyc(s))

EnterUnhandled ==
    \E d \in Deltas : Elapsed(d) /\
        LET s == SevenSeg(Prelude(d))
        IN  AtDispatch(s) /\ ~DoorBehind(s) /\ ~EnterHandled(s)
                /\ Commit(enter_unhandled(s))

Next ==
    \/ SvcGateTimeout
    \/ ReturnGateTimeout
    \/ IdleExpiry
    \/ Dispensing
    \/ NoKey
    \/ SvcGateConfirm
    \/ ReturnGateConfirm
    \/ Back
    \/ Digit
    \/ EnterMenu
    \/ EnterAmount
    \/ EnterSvcMenu
    \/ EnterSvcDispenseIdx
    \/ EnterSvcDispenseAmt
    \/ EnterSvcRestockIdx
    \/ EnterSvcRestockQty
    \/ EnterSvcSoundSel
    \/ EnterSvcMotorCyc
    \/ EnterUnhandled

Spec == Init /\ [][Next]_vars

(* ------------------------- an unattended machine ---------------------- *)
(* The customer walks away in the middle of a purchase, with the idle      *)
(* countdown running: from then on ScanKey finds no key.  The poll loop    *)
(* never blocks and the clock never stops, so an iteration that reads a    *)
(* later clock value always comes.                                         *)
WalkAway ==
    /\ ~left_alone
    /\ service_mode = 0
    /\ timer_active(Cur)
    /\ idle_deadline > 0
    /\ left_alone' = TRUE
    /\ UNCHANGED pvars

Attended == ~left_alone /\ Next
Unattended == left_alone /\ (NoKey \/ IdleExpiry)
ClockMoves == Unattended /\ now' > now

LiveNext == Attended \/ WalkAway \/ Unattended

LiveSpec == Init /\ [][LiveNext]_vars /\ WF_vars(ClockMoves)

(* ----------------------- the loop keeps iterating --------------------- *)
(* No branch of the poll loop blocks on anything but usleep, so with       *)
(* st = ST_DISPENSING the iteration that runs the dispensing branch        *)
(* always comes.  (The door transitions of the prelude neither enter nor   *)
(* leave ST_DISPENSING, so the dispensing branch is run exactly by the     *)
(* iterations that start in it.)                                           *)
DispensingRuns == st = "ST_DISPENSING" /\ Dispensing

BurstSpec == Init /\ [][Next]_vars /\ WF_vars(DispensingRuns)

(* an iteration that starts now and runs the dispensing branch ends        *)
(* within the horizon                                                      *)
BurstFits ==
    \E d \in {e \in Deltas : Elapsed(e)} :
        dispensing(SevenSeg(Prelude(d))).now <= MaxNow

(* ============================ properties ============================== *)
(* the states in which an iteration that starts now reaches the key scan   *)
Reads == {SevenSeg(Prelude(d)) : d \in {e \in Deltas : Elapsed(e)}}
(* the cues and notice screens an iteration with result r has emitted      *)
Cues(r) == {r.out[i] : i \in 1..Len(r.out)}
DoorStates == {"ST_DOOR_OPENING", "ST_DOOR_CLOSING"}
KnownIndex(idx) == \E i \in Slots : ItemIndex[i] = idx

C2_PurchaseStock ==
    [][/\ st = "ST_AMOUNT" /\ st' = "ST_PAY" =>
            /\ chosen_slot \in Slots
            /\ chosen_slot' = chosen_slot
            /\ amount' = atoi(amtbuf)
            /\ amount' >= 1 /\ amount' <= stock[chosen_slot]
            /\ stock' = stock
       /\ st = "ST_PAY" /\ st' \in {"ST_PAY", "ST_DISPENSING"} =>
            chosen_slot' = chosen_slot /\ amount' = amount /\ stock' = stock
       /\ st = "ST_DISPENSING" /\ st' # "ST_DISPENSING" =>
            /\ cycles_run' = amount
            /\ stock' = [stock EXCEPT ![chosen_slot] = @ - amount]
      ]_vars

(* index 3 (stock 1) was bought once: the stock of index 3 is 0            *)
C2_Witness ==
    /\ st = "ST_MENU"
    /\ cycles_run = 1
    /\ "lcd:Done!" \in {out[i] : i \in 1..Len(out)}
    /\ stock[0] = 0
    /\ \A i \in Slots \ {0} : stock[i] = InitStock[i]

(* C3: an iteration that runs a manual dispense of q units in SERVICE mode *)
(* leaves the stock of the dispensed item at its stock before minus q.     *)
C3_SvcDispenseDecrements ==
    [][st = "ST_SVC_DISPENSE_AMT" /\ cycles_run' > 0 =>
            /\ svc_disp_slot \in Slots
            /\ stock' = [stock EXCEPT ![svc_disp_slot] = @ - cycles_run']
      ]_vars

(* C4: in both modes ENTER on a quantity greater than the stock of the     *)
(* selected item emits the error cue and runs no dispense cycle.           *)
C4_OverStockRejected ==
    \A s \in Reads :
        /\ (/\ AtEnter(s, "ST_AMOUNT", 0)
            /\ s.chosen_slot \in Slots
            /\ Len(s.amtbuf) > 0
            /\ atoi(s.amtbuf) > s.stock[s.chosen_slot])
           => LET r == enter_amount(s)
              IN  "beep_error" \in Cues(r) /\ r.st = "ST_AMOUNT" /\ r.cycles_run = 0
        /\ (/\ AtEnter(s, "ST_SVC_DISPENSE_AMT", 1)
            /\ s.svc_disp_slot \in Slots
            /\ Len(s.svcbuf) > 0
            /\ atoi(s.svcbuf) > s.stock[s.svc_disp_slot])
           => LET r == enter_svc_dispense_amt(s)
              IN  "beep_error" \in Cues(r) /\ r.cycles_run = 0

(* C5: ENTER in MENU on a known index whose stock is 0 shows OUT OF STOCK  *)
(* and stays in MENU with no chosen item and an empty selection buffer;    *)
(* the item chosen in AMOUNT always has stock at least 1.                  *)
C5_OutOfStock ==
    /\ st = "ST_AMOUNT" => chosen_slot \in Slots /\ stock[chosen_slot] >= 1
    /\ \A s \in Reads :
          (/\ AtEnter(s, "ST_MENU", 0)
           /\ s.selbuf # <<>> /\ s.selbuf # SERVICE_CODE
           /\ \E i \in Slots : ItemIndex[i] = atoi(s.selbuf) /\ s.stock[i] = 0)
          => LET r == enter_menu(s)
             IN  /\ "lcd:OUT OF STOCK" \in Cues(r)
                 /\ r.st = "ST_MENU"
                 /\ r.chosen_slot = -1
                 /\ r.selbuf = <<>>

(* index 3 was sold out and selected again: OUT OF STOCK is on the screen  *)
C5_Witness ==
    /\ st = "ST_MENU"
    /\ out = <<"lcd:OUT OF STOCK">>
    /\ stock[0] = 0
    /\ chosen_slot = -1
    /\ selbuf = <<>>

C7_OtherKeyResetsZeros ==
    \A s \in Reads :
        (AtDispatch(s) /\ s.st = "ST_PAY" /\ s.service_mode = 0) =>
            /\ (digit(s, "0").st = "ST_DISPENSING") <=> (s.pay_zero_count = 1)
            /\ s.pay_zero_count \in {0, 1}
            /\ \A k \in DigitKeys \ {"0"} :
                  digit(s, k).st = "ST_PAY" /\ digit(s, k).pay_zero_count = 0
            /\ back(s).st = "ST_PAY" => back(s).pay_zero_count = 0
            /\ (~EnterHandled(s) /\ enter_unhandled(s).st = "ST_PAY")
                  => enter_unhandled(s).pay_zero_count = 0

(* C8: ENTER in MENU on the code 1234 goes to SVC_GATE; on a buffer that   *)
(* reads as the index of a catalog item with stock goes to AMOUNT with     *)
(* that item chosen; on a buffer that reads as no catalog index stays in   *)
(* MENU with the error cue and no item chosen.                             *)
C8_MenuEnter ==
    \A s \in Reads :
        AtEnter(s, "ST_MENU", 0) =>
            LET r == enter_menu(s)
                idx == atoi(s.selbuf)
            IN  /\ s.selbuf = SERVICE_CODE => r.st = "ST_SVC_GATE"
                /\ (/\ s.selbuf # <<>> /\ s.selbuf # SERVICE_CODE
                    /\ \E i \in Slots : ItemIndex[i] = idx /\ s.stock[i] >= 1)
                   => /\ r.st = "ST_AMOUNT"
                      /\ r.chosen_slot \in Slots
                      /\ ItemIndex[r.chosen_slot] = idx
                /\ (/\ s.selbuf # <<>> /\ s.selbuf # SERVICE_CODE
                    /\ ~KnownIndex(idx))
                   => /\ r.st = "ST_MENU"
                      /\ "beep_error" \in Cues(r)
                      /\ r.chosen_slot = -1

(* "03" was confirmed in MENU: index 3 is chosen in AMOUNT                 *)
C8_Witness ==
    /\ st = "ST_AMOUNT"
    /\ chosen_slot = 0
    /\ selbuf = <<>>
    /\ amtbuf = <<>>
    /\ out = <<>>
    /\ idle_deadline = now + IDLE_MS

(* C9: a key in SVC_GATE starts a forward door animation whose completion  *)
(* leaves service_mode at 1; a key in RETURN_GATE starts a reverse door    *)
(* animation, and the iteration in which a reverse door animation          *)
(* completes leaves the controller in MENU with service_mode 0 and the     *)
(* NORMAL ports.                                                           *)
C9_DoorCompletionFlips ==
    [][/\ st = "ST_SVC_GATE" /\ st' = "ST_DOOR_OPENING" =>
            gDoorAnim'.active # 0 /\ gDoorAnim'.direction = 1
       /\ st = "ST_RETURN_GATE" /\ st' = "ST_DOOR_CLOSING" =>
            gDoorAnim'.active # 0 /\ gDoorAnim'.direction = -1
       /\ (gDoorAnim.active # 0 /\ gDoorAnim'.active = 0
              /\ gDoorAnim'.direction = 1) => service_mode' = 1
       /\ (gDoorAnim.active # 0 /\ gDoorAnim'.active = 0
              /\ gDoorAnim'.direction = -1) =>
            /\ service_mode' = 0
            /\ st' = "ST_MENU"
            /\ gPorts' = NORMAL_PORTS
      ]_vars

(* C10: the iteration that reads the clock at or after the deadline of     *)
(* SVC_GATE ends in MENU with service_mode 0 and the NORMAL ports, the one *)
(* that reads it at or after the deadline of RETURN_GATE ends in SVC_MENU  *)
(* with service_mode 1 and the ADMIN ports; both clear the deadline.       *)
C10_GateExpiry ==
    [][/\ (st = "ST_SVC_GATE" /\ now' >= svc_gate_deadline) =>
            /\ st' = "ST_MENU"
            /\ service_mode' = 0
            /\ gPorts' = NORMAL_PORTS
            /\ svc_gate_deadline' = 0
       /\ (st = "ST_RETURN_GATE" /\ now' >= return_gate_deadline) =>
            /\ st' = "ST_SVC_MENU"
            /\ service_mode' = 1
            /\ gPorts' = ADMIN_PORTS
            /\ return_gate_deadline' = 0
      ]_vars

(* RETURN_GATE has expired: SVC_MENU again, on the ADMIN ports             *)
C10_Witness ==
    /\ st = "ST_SVC_MENU"
    /\ out = <<"beep_error">>
    /\ service_mode = 1
    /\ gPorts = ADMIN_PORTS
    /\ return_gate_deadline = 0
    /\ now >= RETURN_GATE_TIMEOUT_MS

ServiceStates ==
    {"ST_SVC_MENU", "ST_SVC_DISPENSE_IDX", "ST_SVC_DISPENSE_AMT",
     "ST_SVC_RESTOCK_IDX", "ST_SVC_RESTOCK_QTY", "ST_SVC_SOUND_SEL",
     "ST_SVC_MOTOR_CYC"}

(* C11: SVC_GATE is entered only from MENU in NORMAL mode with the buffer  *)
(* exactly 1234; service_mode becomes 1 only in the step from SVC_GATE to  *)
(* DOOR_OPENING (a keypress), and the expiry of SVC_GATE leaves it 0;      *)
(* service_mode becomes 0 only out of DOOR_CLOSING, which is entered only  *)
(* from RETURN_GATE; and the controller is in SVC_MENU or a service        *)
(* sub-state only with service_mode 1.                                     *)
C11_GatedModeSwitch ==
    [][/\ (st # "ST_SVC_GATE" /\ st' = "ST_SVC_GATE") =>
            st = "ST_MENU" /\ service_mode = 0 /\ selbuf = SERVICE_CODE
       /\ (service_mode = 0 /\ service_mode' # 0) =>
            st = "ST_SVC_GATE" /\ st' = "ST_DOOR_OPENING" /\ now' < svc_gate_deadline
       /\ (st = "ST_SVC_GATE" /\ st' # "ST_SVC_GATE") =>
            \/ st' = "ST_DOOR_OPENING" /\ service_mode' = 1
            \/ st' = "ST_MENU" /\ service_mode' = 0 /\ now' >= svc_gate_deadline
       /\ (service_mode # 0 /\ service_mode' = 0) => st = "ST_DOOR_CLOSING"
       /\ (st # "ST_DOOR_CLOSING" /\ st' = "ST_DOOR_CLOSING") =>
            st = "ST_RETURN_GATE" /\ now' < return_gate_deadline
       /\ st' \in ServiceStates => service_mode' = 1
      ]_vars

(* the code was entered, the gate confirmed and the door has opened        *)
C11_Witness ==
    /\ st = "ST_SVC_MENU"
    /\ service_mode = 1
    /\ gDoorAnim.direction = 1
    /\ gDoorAnim.oneshot_done # 0
    /\ svc_gate_deadline = 0

TimerRunning ==
    /\ service_mode = 0
    /\ idle_deadline > 0
    /\ st \in {"ST_AMOUNT", "ST_PAY"} \/ (st = "ST_MENU" /\ selbuf # <<>>)

IdleReset ==
    /\ st = "ST_MENU"
    /\ selbuf = <<>>
    /\ amtbuf = <<>>
    /\ chosen_slot = -1
    /\ index_timer_active = 0
    /\ idle_deadline = 0

(* C12: the iteration that reads the clock at or after the idle deadline   *)
(* in MENU with digits typed, in AMOUNT or in PAY ends in MENU with both   *)
(* buffers empty, no chosen item and the countdown stopped; the countdown  *)
(* runs in each of these states; and once no key is pressed any more, a    *)
(* countdown that ends within the horizon always leads there.              *)
C12_IdleExpiry ==
    /\ [][/\ (TimerRunning /\ now' >= idle_deadline) =>
                IdleReset' /\ out' = <<"beep_error">>
          /\ (service_mode' = 0 /\ (st' \in {"ST_AMOUNT", "ST_PAY"}
                                      \/ (st' = "ST_MENU" /\ selbuf' # <<>>)))
                => idle_deadline' > 0 /\ (st' = "ST_MENU" => index_timer_active' = 1)
         ]_vars
    /\ (left_alone /\ TimerRunning /\ idle_deadline <= MaxNow) ~> IdleReset

(* the customer walked away in PAY and the countdown has expired           *)
C12_Witness ==
    /\ left_alone
    /\ IdleReset
    /\ out = <<"beep_error">>
    /\ total > 0
    /\ now >= IDLE_MS

(* C13: the iteration that finds a countdown expired clears its deadline   *)
(* and leaves the state the countdown belongs to; a gate deadline is set   *)
(* only in its gate state; and with a deadline cleared no iteration,       *)
(* whenever it reads the clock, finds that countdown expired.              *)
C13_ExpiryOnce ==
    /\ [][/\ (service_mode = 0 /\ timer_active(Cur) /\ idle_deadline > 0
                 /\ now' >= idle_deadline)
              => idle_deadline' = 0 /\ ~timer_active(Cur)'
          /\ (st = "ST_SVC_GATE" /\ svc_gate_deadline > 0
                 /\ now' >= svc_gate_deadline)
              => svc_gate_deadline' = 0 /\ st' # "ST_SVC_GATE"
          /\ (st = "ST_RETURN_GATE" /\ return_gate_deadline > 0
                 /\ now' >= return_gate_deadline)
              => return_gate_deadline' = 0 /\ st' # "ST_RETURN_GATE"
         ]_vars
    /\ [](/\ svc_gate_deadline > 0 <=> st = "ST_SVC_GATE"
          /\ return_gate_deadline > 0 <=> st = "ST_RETURN_GATE"
          /\ \A d \in Deltas :
                LET s == Prelude(d)
                IN  /\ idle_deadline = 0 => ~IdleExpired(s)
                    /\ svc_gate_deadline = 0 => ~SvcGateExpired(s)
                    /\ return_gate_deadline = 0 => ~ReturnGateExpired(s))

(* the idle countdown or the gate has expired, back in MENU, nothing armed *)
C13_Witness ==
    /\ st = "ST_MENU"
    /\ out = <<"beep_error">>
    /\ idle_deadline = 0
    /\ svc_gate_deadline = 0
    /\ return_gate_deadline = 0
    /\ now >= IDLE_MS
    /\ \A d \in Deltas : ~Preempted(Prelude(d))

(* ---------------------- animation track in isolation ------------------- *)
(* One track driven directly: armed in either direction, ticked after      *)
(* arbitrary delays, each frame file present or absent when it is shown.   *)
StartTimes == {0, 300}
TickDeltas == {0, 300, DOOR_FRAME_MS, 2000}

door_frames == <<"IMG_DOOR_1", "IMG_DOOR_2", "IMG_DOOR_3", "IMG_DOOR_4">>

(* what one call of anim_tick at time t puts on the screen                 *)
anim_shows(a, t, present) ==
    IF a.active = 0 \/ a.oneshot_done # 0 THEN <<>>
    ELSE IF t < a.next_ms THEN <<>>
    ELSE <<IF present THEN door_frames[a.idx + 1] ELSE "IMG_MENU">>

AnimInit ==
    /\ now \in StartTimes
    /\ st = "ST_MENU"
    /\ selbuf = <<>>
    /\ amtbuf = <<>>
    /\ svcbuf = <<>>
    /\ chosen_slot = -1
    /\ amount = 0
    /\ total = 0
    /\ pay_zero_count = 0
    /\ index_timer_active = 0
    /\ service_mode = 0
    /\ svc_gate_deadline = 0
    /\ return_gate_deadline = 0
    /\ svc_disp_slot = -1
    /\ restock_slot = -1
    /\ gPorts = NORMAL_PORTS
    /\ idle_deadline = 0
    /\ last_shown = -1
    /\ gDoorAnim = ZeroAnim
    /\ gDispAnim = ZeroAnim
    /\ stock = InitStock
    /\ phase = 0
    /\ spin_phase = 0
    /\ last_phase = -1
    /\ phase_break = FALSE
    /\ writes = 0
    /\ cycles_run = 0
    /\ out = <<>>
    /\ left_alone = FALSE

AnimFrame ==
    UNCHANGED <<st, selbuf, amtbuf, svcbuf, chosen_slot, amount, total,
                pay_zero_count, index_timer_active, service_mode,
                svc_gate_deadline, return_gate_deadline, svc_disp_slot,
                restock_slot, gPorts, idle_deadline, last_shown, gDispAnim,
                stock, phase, spin_phase, last_phase, phase_break, writes,
                cycles_run, left_alone>>

(* anim_start on the door track; out collects the frames of the run        *)
AnimStart ==
    \E direction \in {1, -1} :
        /\ gDoorAnim' = anim_start(gDoorAnim, DOOR_N, direction,
                                   DOOR_FRAME_MS, now)
        /\ out' = <<>>
        /\ now' = now
        /\ AnimFrame

AnimTick ==
    \E d \in TickDeltas, present \in BOOLEAN :
        /\ now + d <= MaxNow
        /\ gDoorAnim.nframes > 0
        /\ now' = now + d
        /\ gDoorAnim' = anim_tick(gDoorAnim, now + d)
        /\ out' = out \o anim_shows(gDoorAnim, now + d, present)
        /\ AnimFrame

AnimNext == AnimStart \/ AnimTick
AnimSpec == AnimInit /\ [][AnimNext]_vars

(* the frames of a run in its direction, wherever a file may be absent     *)
RunOrder(a) ==
    [i \in 1..a.nframes |->
        IF a.direction > 0 THEN door_frames[i]
        ELSE door_frames[a.nframes + 1 - i]]

AtTerminal(a) ==
    IF a.direction > 0 THEN a.idx = a.nframes - 1 ELSE a.idx = 0

ReadDeltas == {0, 250, 1000}

TimerFrame ==
    UNCHANGED <<st, selbuf, amtbuf, svcbuf, chosen_slot, amount, total,
                pay_zero_count, index_timer_active, service_mode,
                svc_gate_deadline, return_gate_deadline, svc_disp_slot,
                restock_slot, gPorts, gDoorAnim, gDispAnim, stock, phase,
                spin_phase, last_phase, phase_break, writes, cycles_run, out,
                left_alone>>

TimerStart ==
    LET r == timer_start_or_reset(Cur)
    IN  /\ now <= MaxNow
        /\ idle_deadline' = r.idle_deadline
        /\ last_shown' = r.last_shown
        /\ now' = now
        /\ TimerFrame

TimerRead ==
    \E d \in ReadDeltas :
        LET r == timer_update_display(Cur, now + d)
        IN  /\ now + d <= MaxNow
            /\ now' = now + d
            /\ idle_deadline' = r.idle_deadline
            /\ last_shown' = r.last_shown
            /\ TimerFrame

TimerStop ==
    LET r == timer_stop_and_blank(Cur)
    IN  /\ idle_deadline > 0
        /\ idle_deadline' = r.idle_deadline
        /\ last_shown' = r.last_shown
        /\ now' = now
        /\ TimerFrame

TimerNext == TimerStart \/ TimerRead \/ TimerStop
TimerSpec == AnimInit /\ [][TimerNext]_vars

(* the times at which the function is probed for one deadline: a grid,     *)
(* and the instants around the deadline and around each whole second       *)
ProbeTimes ==
    {k * 250 : k \in 0..(MaxNow \div 250)}
    \cup {idle_deadline + e : e \in {-9001, -9000, -8999, -1001, -1000,
                                      -999, -1, 0, 1, 1000}}

CeilSeconds(rem) ==
    CHOOSE q \in 0..(MaxSeconds + 11) : (q - 1) * 1000 < rem /\ rem <= q * 1000

(* C15: for a running deadline timer_seconds_left never grows with the     *)
(* time argument, lies in 0..9, is ceil((deadline - t)/1000) capped at 9,  *)
(* is 0 from the deadline on; the indicator holds a digit 0..9 or is blank *)
C15_SecondsLeft ==
    /\ [](idle_deadline > 0 =>
            /\ \A t \in ProbeTimes :
                  LET left == timer_seconds_left(Cur, t)
                  IN  /\ left \in 0..9
                      /\ t >= idle_deadline => left = 0
                      /\ t < idle_deadline =>
                            left = IF CeilSeconds(idle_deadline - t) > 9
                                   THEN 9
                                   ELSE CeilSeconds(idle_deadline - t)
            /\ \A t1, t2 \in ProbeTimes :
                  t1 <= t2 => timer_seconds_left(Cur, t2)
                                  <= timer_seconds_left(Cur, t1))
    /\ [](last_shown \in -1..9)
    /\ [][(idle_deadline > 0 /\ idle_deadline' = idle_deadline)
             => /\ timer_seconds_left(Cur, now') <= timer_seconds_left(Cur, now)
                /\ last_shown' \in {last_shown, -1,
                                   timer_seconds_left(Cur, now')}
         ]_vars

(* a countdown restarted late and read down to 0 past its deadline         *)
C15_Witness ==
    /\ idle_deadline > IDLE_MS
    /\ now >= idle_deadline
    /\ last_shown = 0
    /\ timer_seconds_left(Cur, now) = 0
    /\ timer_seconds_left(Cur, idle_deadline - IDLE_MS) = 9

(* the cues and notices of a list of outputs                               *)
CuesOf(o) == {o[i] : i \in 1..Len(o)}

(* C16: a burst of N units runs N cycles and writes N x 240 phases; each   *)
(* phase written, in a dispense burst or a motor test, is the one after    *)
(* the phase written before it (within an iteration by phase_break; from   *)
(* one iteration to the next because each of the two phase counters is 0   *)
(* between iterations, so every burst starts with phase 0 and ends with    *)
(* phase 3); on return from the burst the dispensing track is complete.    *)
C16_DispenseBurst ==
    /\ [][/\ st = "ST_DISPENSING"
              => /\ cycles_run' = amount
                 /\ writes' = amount * TOTAL_STEPS_PER_ITEM * 4
          /\ (st = "ST_SVC_DISPENSE_AMT" /\ "lcd:Service Done" \in CuesOf(out'))
              => /\ cycles_run' = atoi(svcbuf)
                 /\ writes' = atoi(svcbuf) * TOTAL_STEPS_PER_ITEM * 4
                 /\ gDispAnim'.oneshot_done = 1
          /\ cycles_run' > 0
              => /\ st \in {"ST_DISPENSING", "ST_SVC_DISPENSE_AMT"}
                 /\ writes' = cycles_run' * TOTAL_STEPS_PER_ITEM * 4
          /\ writes' > 0
              => /\ last_phase' = 3
                 /\ phase' = (phase + (IF cycles_run' > 0 THEN writes' ELSE 0)) % 4
                 /\ spin_phase' = (spin_phase
                                   + (IF cycles_run' > 0 THEN 0 ELSE writes')) % 4
          /\ writes' = 0 => last_phase' = -1
         ]_vars
    /\ [](~phase_break)
    /\ [](phase = 0 /\ spin_phase = 0)
    /\ [](st = "ST_DISPENSING" =>
            \A d \in {e \in Deltas : Elapsed(e)} :
                LET s == Prelude(d)
                    b == dispense_burst(s, DispenseArmed(s), s.amount)
                IN  /\ b.gDispAnim.oneshot_done = 1
                    /\ b.gDispAnim.active = 0
                    /\ b.cycles_run = s.amount)

(* a service burst of two units has just returned                         *)
C16_Witness ==
    /\ cycles_run = 2
    /\ writes = 2 * TOTAL_STEPS_PER_ITEM * 4
    /\ last_phase = 3
    /\ gDispAnim.oneshot_done = 1
    /\ st = "ST_SVC_MENU"

(* the values Commit gives the program's variables for a result r          *)
Committed(r) ==
    <<r.now, r.st, r.selbuf, r.amtbuf, r.svcbuf, r.chosen_slot, r.amount,
      r.total, r.pay_zero_count, r.index_timer_active, r.service_mode,
      r.svc_gate_deadline, r.return_gate_deadline, r.svc_disp_slot,
      r.restock_slot, r.gPorts, r.idle_deadline, r.last_shown, r.gDoorAnim,
      r.gDispAnim, r.stock, r.phase, r.spin_phase, r.last_phase,
      r.phase_break, r.writes, r.cycles_run, r.out>>

(* C17: an iteration that reads the clock at a time at which a gate        *)
(* countdown or the idle countdown has expired does what the expiry        *)
(* branch does and nothing else: no gate is confirmed, no digit appended,  *)
(* no ENTER or BACK handled, the only cue is the error cue.                *)
C17_ExpiryPreempts ==
    [][\A d \in Deltas :
          now' = now + d =>
              LET s == Prelude(d)
              IN  /\ SvcGateExpired(s)
                      => /\ pvars' = Committed(svc_gate_timeout(s))
                         /\ st' = "ST_MENU" /\ gDoorAnim' = gDoorAnim
                  /\ ReturnGateExpired(s)
                      => /\ pvars' = Committed(return_gate_timeout(s))
                         /\ st' = "ST_SVC_MENU" /\ gDoorAnim' = gDoorAnim
                  /\ IdleExpired(s)
                      => /\ pvars' = Committed(idle_expiry(s))
                         /\ st' = "ST_MENU" /\ selbuf' = <<>> /\ amtbuf' = <<>>
                  /\ Preempted(s) => out' = <<"beep_error">>
      ]_vars

(* the idle countdown has expired in PAY, zeros already entered            *)
C17_Witness ==
    /\ st = "ST_MENU"
    /\ out = <<"beep_error">>
    /\ chosen_slot = -1
    /\ pay_zero_count > 0
    /\ idle_deadline = 0
    /\ now >= IDLE_MS

(* buf without its last element                                            *)
Front(buf) == SubSeq(buf, 1, Len(buf) - 1)

(* C18: BACK on a non-empty active buffer deletes its last digit and       *)
(* leaves the state as it is (in MENU the index buffer, in AMOUNT the      *)
(* amount buffer, in service mode the field being typed); BACK on an empty *)
(* buffer in AMOUNT or PAY aborts the purchase to MENU.                    *)
C18_BackDeletesOneDigit ==
    \A s \in Reads :
        AtDispatch(s) =>
            LET r == back(s)
            IN  /\ (s.service_mode = 0 /\ s.st = "ST_MENU" /\ Len(s.selbuf) > 0)
                    => r.st = "ST_MENU" /\ r.selbuf = Front(s.selbuf)
                /\ (s.service_mode = 0 /\ s.st = "ST_AMOUNT" /\ Len(s.amtbuf) > 0)
                    => /\ r.st = "ST_AMOUNT"
                       /\ r.amtbuf = Front(s.amtbuf)
                       /\ r.chosen_slot = s.chosen_slot
                /\ (s.service_mode = 0 /\ s.st = "ST_AMOUNT" /\ Len(s.amtbuf) = 0)
                    => r.st = "ST_MENU" /\ r.chosen_slot = -1
                /\ (s.service_mode = 0 /\ s.st = "ST_PAY")
                    => r.st = "ST_MENU" /\ r.chosen_slot = -1
                /\ (s.service_mode = 1 /\ s.st \notin DoorStates
                       /\ Len(ActiveBuf(s)) > 0)
                    => r.st = s.st /\ ActiveBuf(r) = Front(ActiveBuf(s))

(* the notice screens of the error paths                                   *)
ErrorNotices ==
    {"lcd:No index", "lcd:Invalid index", "lcd:OUT OF STOCK",
     "lcd:No amount", "lcd:Amount must be 1-15", "lcd:Insufficient stock",
     "lcd:Invalid choice", "lcd:Bad idx", "lcd:Amount 1-15", "lcd:No stock",
     "lcd:Stock must be 1-15", "lcd:Pick 1-8", "lcd:Sound must be 1-8",
     "lcd:No cycles", "lcd:Cycles must be 1-15"}

ErrorIsCued(r) ==
    Cues(r) \cap ErrorNotices # {} => "beep_error" \in Cues(r)

(* C19: every error path emits the error cue: an ENTER that ends on an     *)
(* error notice (empty field, value out of range, unknown index,           *)
(* insufficient stock, out-of-stock item, invalid service choice) and      *)
(* every idle or gate expiry.                                              *)
C19_ErrorCue ==
    \A s \in Reads :
        /\ AtEnter(s, "ST_MENU", 0) => ErrorIsCued(enter_menu(s))
        /\ AtEnter(s, "ST_AMOUNT", 0) => ErrorIsCued(enter_amount(s))
        /\ AtEnter(s, "ST_SVC_MENU", 1) => ErrorIsCued(enter_svc_menu(s))
        /\ AtEnter(s, "ST_SVC_DISPENSE_IDX", 1)
              => ErrorIsCued(enter_svc_dispense_idx(s))
        /\ (AtEnter(s, "ST_SVC_DISPENSE_AMT", 1)
               /\ (Len(s.svcbuf) = 0 \/ atoi(s.svcbuf) \notin 1..15))
              => ErrorIsCued(enter_svc_dispense_amt(s))
        /\ AtEnter(s, "ST_SVC_RESTOCK_IDX", 1)
              => ErrorIsCued(enter_svc_restock_idx(s))
        /\ AtEnter(s, "ST_SVC_RESTOCK_QTY", 1)
              => ErrorIsCued(enter_svc_restock_qty(s))
        /\ AtEnter(s, "ST_SVC_SOUND_SEL", 1)
              => ErrorIsCued(enter_svc_sound_sel(s))
        /\ (AtEnter(s, "ST_SVC_MOTOR_CYC", 1)
               /\ (Len(s.svcbuf) = 0 \/ atoi(s.svcbuf) \notin 1..15))
              => ErrorIsCued(enter_svc_motor_cyc(s))
        /\ SvcGateExpired(s) => "beep_error" \in Cues(svc_gate_timeout(s))
        /\ ReturnGateExpired(s) => "beep_error" \in Cues(return_gate_timeout(s))
        /\ IdleExpired(s) => "beep_error" \in Cues(idle_expiry(s))

(* C20: no stock is ever negative; a stock changes only in the iteration   *)
(* that completes a purchase, which lowers the chosen item's stock, and    *)
(* in a restock confirmation, which sets the chosen item's stock to the    *)
(* value entered, that value being in 1..15; every other iteration leaves  *)
(* every stock as it is, and the catalog keeps its slots.                  *)
C20_StockFrame ==
    /\ [](\A i \in Slots : stock[i] >= 0)
    /\ [](DOMAIN stock = Slots)
    /\ [][stock' # stock =>
            \/ /\ st = "ST_DISPENSING"
               /\ cycles_run' = amount
               /\ chosen_slot \in Slots
               /\ stock'[chosen_slot] < stock[chosen_slot]
               /\ stock' = [stock EXCEPT ![chosen_slot] =
                               IF @ - amount < 0 THEN 0 ELSE @ - amount]
            \/ /\ st = "ST_SVC_RESTOCK_QTY"
               /\ service_mode = 1
               /\ "lcd:Restocked" \in CuesOf(out')
               /\ restock_slot \in Slots
               /\ atoi(svcbuf) \in 1..15
               /\ stock' = [stock EXCEPT ![restock_slot] = atoi(svcbuf)]
         ]_vars

(* a restock confirmation has just set a stock to a new value              *)
C20_Witness ==
    /\ "lcd:Restocked" \in {out[i] : i \in 1..Len(out)}
    /\ st = "ST_SVC_MENU"
    /\ stock # InitStock
    /\ \E i \in Slots : stock[i] = 2 /\ InitStock[i] # 2

(* the track is as anim_start leaves it                                    *)
Rearmed(a) == a.active = 1 /\ a.oneshot_done = 0

(* C21: a completion flag that is set stays set until anim_start re-arms   *)
(* its track: no iteration clears the flag of the door track or of the     *)
(* dispensing track and leaves the track unarmed, whether the flag was     *)
(* set before the iteration or by the iteration itself.                    *)
C21_DoneUntilRearmed ==
    /\ [][/\ (gDoorAnim.oneshot_done = 1 /\ gDoorAnim'.oneshot_done = 0)
              => Rearmed(gDoorAnim')
          /\ (gDispAnim.oneshot_done = 1 /\ gDispAnim'.oneshot_done = 0)
              => Rearmed(gDispAnim')
         ]_vars
    /\ [](st = "ST_DISPENSING" =>
            \A s \in Reads :
                (AnimWillFinish(DispenseArmed(s)) /\ s.st = "ST_DISPENSING") =>
                    LET b == dispense_burst(s, DispenseArmed(s), s.amount)
                        r == dispensing(s)
                    IN  b.gDispAnim.oneshot_done = 1 =>
                            \/ r.gDispAnim.oneshot_done = 1
                            \/ Rearmed(r.gDispAnim))

(* nothing of a purchase is left in r                                      *)
SessionReset(r) ==
    /\ r.st = "ST_MENU"
    /\ r.selbuf = <<>>
    /\ r.amtbuf = <<>>
    /\ r.chosen_slot = -1
    /\ r.amount = 0
    /\ r.total = 0

(* C22: the completion of a purchase, a BACK abort from AMOUNT or PAY and  *)
(* an idle expiry in AMOUNT or PAY each end in MENU with both digit        *)
(* buffers empty, no item chosen, and the quantity and the total at zero.  *)
C22_SessionReset ==
    \A s \in Reads :
        /\ (s.st = "ST_DISPENSING" /\ AnimWillFinish(DispenseArmed(s)))
              => SessionReset(dispensing(s))
        /\ (AtDispatch(s) /\ s.service_mode = 0 /\ s.st \in {"ST_AMOUNT", "ST_PAY"})
              => SessionReset(back(s))
        /\ (IdleExpired(s) /\ s.st \in {"ST_AMOUNT", "ST_PAY"})
              => SessionReset(idle_expiry(s))

ServiceSubStates == ServiceStates \ {"ST_SVC_MENU"}

(* C23: in service mode BACK in any service sub-state goes to SVC_MENU in  *)
(* that one iteration, with the service buffer and the selection buffer    *)
(* empty and no dispense or restock item pending, and changes no stock.    *)
C23_ServiceBack ==
    \A s \in Reads :
        (AtDispatch(s) /\ s.service_mode = 1 /\ s.st \in ServiceSubStates) =>
            LET r == back(s)
            IN  /\ r.st = "ST_SVC_MENU"
                /\ r.svcbuf = <<>>
                /\ r.selbuf = <<>>
                /\ r.svc_disp_slot = -1
                /\ r.restock_slot = -1
                /\ r.stock = s.stock
                /\ r.service_mode = 1
                /\ r.writes = 0 /\ r.cycles_run = 0

(* in the restock quantity step, an item pending and a digit typed, where  *)
(* BACK leads to SVC_MENU with the item dropped                            *)
C23_Witness ==
    /\ st = "ST_SVC_RESTOCK_QTY"
    /\ service_mode = 1
    /\ restock_slot \in Slots
    /\ Len(svcbuf) > 0
    /\ \E s \in Reads :
          /\ AtDispatch(s)
          /\ back(s).st = "ST_SVC_MENU"
          /\ back(s).restock_slot = -1
          /\ back(s).svcbuf = <<>>

(* the ENTER handler of service sub-state s.st                             *)
EnterSvc(s) ==
    CASE s.st = "ST_SVC_DISPENSE_IDX" -> enter_svc_dispense_idx(s)
      [] s.st = "ST_SVC_DISPENSE_AMT" -> enter_svc_dispense_amt(s)
      [] s.st = "ST_SVC_RESTOCK_IDX"  -> enter_svc_restock_idx(s)
      [] s.st = "ST_SVC_RESTOCK_QTY"  -> enter_svc_restock_qty(s)
      [] s.st = "ST_SVC_SOUND_SEL"    -> enter_svc_sound_sel(s)
      [] s.st = "ST_SVC_MOTOR_CYC"    -> enter_svc_motor_cyc(s)

(* the value typed in sub-state s.st is not one the sub-state accepts      *)
SvcValueRejected(s) ==
    LET v == atoi(s.svcbuf)
    IN  IF s.st \in {"ST_SVC_DISPENSE_IDX", "ST_SVC_RESTOCK_IDX"}
        THEN v \notin {ItemIndex[i] : i \in Slots}
        ELSE IF s.st = "ST_SVC_SOUND_SEL" THEN v \notin 1..8
        ELSE v \notin 1..15

(* C24: in every service sub-state ENTER on an empty service buffer is an  *)
(* error that changes neither the state nor a buffer; ENTER on an unknown  *)
(* index or on a value out of its bound is an error that empties the       *)
(* service buffer, keeps the sub-state and changes no stock; a restock     *)
(* quantity in 1..15 sets the selected item's stock, and no other, to      *)
(* that value and returns to SVC_MENU.                                     *)
C24_ServiceEnterErrors ==
    \A s \in Reads :
        (AtDispatch(s) /\ ~DoorBehind(s) /\ s.service_mode = 1
             /\ s.st \in ServiceSubStates) =>
            LET r == EnterSvc(s)
            IN  /\ Len(s.svcbuf) = 0
                    => /\ "beep_error" \in Cues(r)
                       /\ r.st = s.st
                       /\ r.svcbuf = s.svcbuf /\ r.selbuf = s.selbuf
                       /\ r.amtbuf = s.amtbuf
                       /\ r.stock = s.stock
                       /\ r.writes = 0
                /\ (Len(s.svcbuf) > 0 /\ SvcValueRejected(s))
                    => /\ "beep_error" \in Cues(r)
                       /\ r.st = s.st
                       /\ r.svcbuf = <<>>
                       /\ r.stock = s.stock
                       /\ r.writes = 0
                /\ (s.st = "ST_SVC_RESTOCK_QTY" /\ Len(s.svcbuf) > 0
                       /\ ~SvcValueRejected(s))
                    => /\ r.st = "ST_SVC_MENU"
                       /\ s.restock_slot \in Slots
                       /\ r.stock = [s.stock EXCEPT ![s.restock_slot] =
                                        atoi(s.svcbuf)]

(* the motor test has just rejected a number of cycles out of its bound    *)
C24_Witness ==
    /\ st = "ST_SVC_MOTOR_CYC"
    /\ out = <<"beep_error", "lcd:Cycles must be 1-15">>
    /\ svcbuf = <<>>
    /\ writes = 0
    /\ service_mode = 1

(* every buffer of one to four keys out of 0..4: the reserved code, its    *)
(* prefixes, suffixes and permutations, and 0123 among them                *)
CodeKeys == {"0", "1", "2", "3", "4"}
TrialCodes ==
    UNION {[1..n -> CodeKeys] : n \in 1..SELBUF_CAP}

(* C25: ENTER in MENU enters SVC_GATE, and ENTER in SVC_MENU enters        *)
(* RETURN_GATE, exactly when the selection buffer is the four keys         *)
(* 1,2,3,4 in that order; no other buffer enters a gate.                   *)
C25_ExactCode ==
    \A s \in Reads :
        /\ (AtEnter(s, "ST_MENU", 0) /\ Len(s.selbuf) > 0) =>
              \A w \in TrialCodes \cup {s.selbuf} :
                  LET r == enter_menu([s EXCEPT !.selbuf = w])
                  IN  /\ r.st = "ST_SVC_GATE" <=> w = <<"1", "2", "3", "4">>
                      /\ r.st # "ST_SVC_GATE" =>
                            r.svc_gate_deadline = 0 /\ r.gPorts = s.gPorts
        /\ AtEnter(s, "ST_SVC_MENU", 1) =>
              \A w \in TrialCodes \cup {s.selbuf} :
                  LET r == enter_svc_menu([s EXCEPT !.selbuf = w])
                  IN  /\ r.st = "ST_RETURN_GATE" <=> w = <<"1", "2", "3", "4">>
                      /\ r.st # "ST_RETURN_GATE" => r.return_gate_deadline = 0

(* the code has just been confirmed in SVC_MENU                            *)
C25_Witness ==
    /\ st = "ST_RETURN_GATE"
    /\ service_mode = 1
    /\ selbuf = <<>>
    /\ return_gate_deadline = now + RETURN_GATE_TIMEOUT_MS

(* C26: the selection buffer never holds more than 4 digits, the amount    *)
(* buffer 3, the service buffer 4 (each is 8 bytes long), and a digit      *)
(* pressed on a full buffer changes neither the buffers nor anything else  *)
(* of the state.                                                           *)
C26_BufferCaps ==
    /\ Len(selbuf) <= 4
    /\ Len(amtbuf) <= 3
    /\ Len(svcbuf) <= 4
    /\ \A s \in Reads :
          (/\ AtDispatch(s)
           /\ s.service_mode = 1 \/ s.st \in {"ST_MENU", "ST_AMOUNT"}
           /\ Len(ActiveBuf(s)) >= (IF s.service_mode = 0 /\ s.st = "ST_AMOUNT"
                                    THEN 3 ELSE 4))
          => \A k \in DigitKeys : Committed(digit(s, k)) = Committed(s)

(* the amount buffer is full and one more digit is dropped                 *)
C26_Witness ==
    /\ st = "ST_AMOUNT"
    /\ service_mode = 0
    /\ Len(amtbuf) = 3
    /\ \E s \in Reads :
          AtDispatch(s) /\ MayType(s, "5") /\ digit(s, "5").amtbuf = amtbuf

GateStates == {"ST_SVC_GATE", "ST_RETURN_GATE"}

(* C27: at most one of the idle deadline, the service-gate deadline and    *)
(* the return-gate deadline is armed, and the idle deadline is never armed *)
(* in service mode, in a gate state or in a door state.                    *)
C27_OneCountdown ==
    /\ Cardinality({i \in 1..3 :
                       <<idle_deadline, svc_gate_deadline,
                         return_gate_deadline>>[i] # 0}) <= 1
    /\ (service_mode = 1 \/ st \in GateStates \/ st \in DoorStates)
           => idle_deadline = 0

(* the return gate is counting, in service mode, and nothing else is       *)
C27_Witness ==
    /\ st = "ST_RETURN_GATE"
    /\ service_mode = 1
    /\ return_gate_deadline > now
    /\ svc_gate_deadline = 0
    /\ idle_deadline = 0

(* C28: in SVC_MENU and in every service sub-state the ports are the       *)
(* ADMIN set and the mode is SERVICE; in MENU, AMOUNT, PAY and             *)
(* DISPENSING the ports are the NORMAL set and the mode is NORMAL.         *)
C28_ModeMatchesPorts ==
    /\ st \in ServiceStates
          => gPorts = ADMIN_PORTS /\ service_mode = 1
    /\ st \in {"ST_MENU", "ST_AMOUNT", "ST_PAY", "ST_DISPENSING"}
          => gPorts = NORMAL_PORTS /\ service_mode = 0

(* C29: chosen_slot is a catalog position in AMOUNT, PAY and DISPENSING,   *)
(* svc_disp_slot in the service dispense-amount step, restock_slot in the  *)
(* restock-quantity step; in DISPENSING 1 <= amount <= stock of the chosen *)
(* item, so the stock update never has a negative value to clamp.          *)
C29_ValidSlots ==
    /\ st \in {"ST_AMOUNT", "ST_PAY", "ST_DISPENSING"} => chosen_slot \in Slots
    /\ st = "ST_SVC_DISPENSE_AMT" => svc_disp_slot \in Slots
    /\ st = "ST_SVC_RESTOCK_QTY" => restock_slot \in Slots
    /\ st \in {"ST_PAY", "ST_DISPENSING"}
          => /\ 1 <= amount
             /\ amount <= stock[chosen_slot]
             /\ StockAfterDispense(Cur)[chosen_slot]
                    = stock[chosen_slot] - amount

(* about to dispense the whole stock of an item that had more than one     *)
C29_Witness ==
    /\ st = "ST_DISPENSING"
    /\ chosen_slot \in Slots
    /\ amount = stock[chosen_slot]
    /\ amount > 1

(* C30: in customer MENU the idle countdown runs exactly when the          *)
(* selection buffer is non-empty (index_timer_active = 1 and               *)
(* idle_deadline > 0, both or neither), and in AMOUNT and PAY the idle     *)
(* deadline is always armed.                                               *)
C30_CountdownFollowsInput ==
    /\ (st = "ST_MENU" /\ service_mode = 0)
          => /\ Len(selbuf) > 0 => index_timer_active = 1 /\ idle_deadline > 0
             /\ Len(selbuf) = 0 => index_timer_active = 0 /\ idle_deadline = 0
    /\ st \in {"ST_AMOUNT", "ST_PAY"} => idle_deadline > 0 /\ service_mode = 0

(* back at an empty MENU prompt after a purchase, the countdown stopped    *)
C30_Witness ==
    /\ st = "ST_MENU"
    /\ service_mode = 0
    /\ selbuf = <<>>
    /\ index_timer_active = 0
    /\ idle_deadline = 0
    /\ cycles_run > 0

(* a track that is not running                                             *)
TrackIdle(a) == a.active = 0
(* the wait loop alone, entered with track a at time t0                    *)
WaitOnly(a, t0) == wait_anim([anim |-> a, t |-> t0])

(* C31: every dispense burst terminates.  In ST_DISPENSING nothing         *)
(* pre-empts the dispensing branch and the branch finds the dispensing     *)
(* track neither running nor complete, so it arms it; a service dispense   *)
(* arms it itself.  From an armed track the wait loop alone exits, with    *)
(* the track complete, within DISP_N frame times; the burst returns with   *)
(* the track complete and not running.  The iteration that runs            *)
(* ST_DISPENSING ends in MENU, the service dispense in SVC_MENU, with the  *)
(* dispensing track idle, and ST_DISPENSING always leads to MENU (an       *)
(* iteration runs the dispensing branch only if it starts in               *)
(* ST_DISPENSING).                                                         *)
C31_BurstTerminates ==
    /\ [](st = "ST_DISPENSING" =>
            \A s \in Reads :
                /\ ~Preempted(s)
                /\ s.st = "ST_DISPENSING"
                /\ s.gDispAnim.active = 0 /\ s.gDispAnim.oneshot_done = 0
                /\ Rearmed(DispenseArmed(s))
                /\ AnimWillFinish(DispenseArmed(s)) =>
                      LET w == WaitOnly(DispenseArmed(s), s.now)
                          b == dispense_burst(s, DispenseArmed(s), s.amount)
                          r == dispensing(s)
                      IN  /\ w.anim.oneshot_done = 1
                          /\ w.t <= s.now + DISP_N * DISP_FRAME_MS
                          /\ b.gDispAnim.oneshot_done = 1
                          /\ TrackIdle(b.gDispAnim)
                          /\ r.st = "ST_MENU"
                          /\ TrackIdle(r.gDispAnim))
    /\ [](st # "ST_DISPENSING" => \A s \in Reads : s.st # "ST_DISPENSING")
    /\ [](\A s \in Reads :
            (/\ AtEnter(s, "ST_SVC_DISPENSE_AMT", 1)
             /\ atoi(s.svcbuf) \in 1..MAX_COUNT) =>
                LET w == WaitOnly(SvcDispenseArmed(s), s.now)
                    r == enter_svc_dispense_amt(s)
                IN  /\ Rearmed(SvcDispenseArmed(s))
                    /\ w.anim.oneshot_done = 1
                    /\ w.t <= s.now + DISP_N * DISP_FRAME_MS
                    /\ r.st = "ST_SVC_MENU"
                    /\ r.cycles_run = atoi(s.svcbuf)
                    /\ TrackIdle(r.gDispAnim))
    /\ [][st = "ST_DISPENSING" =>
              /\ st' = "ST_MENU"
              /\ cycles_run' = amount
              /\ TrackIdle(gDispAnim')
         ]_vars
    /\ (st = "ST_DISPENSING" /\ BurstFits)
           ~> (st = "ST_MENU" /\ TrackIdle(gDispAnim) /\ cycles_run > 0)

(* a purchase of two units has just been dispensed: the burst returned     *)
(* with the last frame shown and the track idle                            *)
C31_Witness ==
    /\ st = "ST_MENU"
    /\ cycles_run = 2
    /\ "beep_success" \in CuesOf(out)
    /\ gDispAnim.idx = DISP_N - 1
    /\ TrackIdle(gDispAnim)
    /\ gDispAnim.oneshot_done = 0
====
